---- MODULE Spec2Model ----
(***************************************************************************)
(* Chunked upload: the pure upload state machine (lib/upload-state.ts) and *)
(* the orchestrator that drives it through three injected asynchronous     *)
(* operations (lib/upload-orchestrator.ts).                                *)
(***************************************************************************)
EXTENDS Integers, Sequences, FiniteSets, TLC

\* ------------------------------------------------------------------------
\* Bounds of the model
\* ------------------------------------------------------------------------
MaxSize == 3
MaxChunkSize == 2
MaxRetriesBound == 2
MaxCount == 2
MaxCancels == 2
MaxOrchestrators == 3
MaxPending == 2
MaxFilters == 2
MaxBatch == 2
MaxFields == 2
MaxRows == 2
MaxValues == 3
MaxRowCount == 5
MaxColumns == 3
MaxPreviewRows == 1
MaxEvents == 5

\* ------------------------------------------------------------------------
\* Values
\* ------------------------------------------------------------------------
\* File names are character sequences so that endsWith('.csv') is computed.
CsvName == <<"t", ".", "c", "s", "v">>
TxtName == <<"t", ".", "t", "x", "t">>
Names == {CsvName, TxtName}
Types == {"text/csv", "text/plain"}
Sizes == 0..MaxSize

FileInfo == [name : Names, size : Sizes, type : Types]

\* the files handed to start(): CSV files of every size, and one file of each
\* other combination of name and type
Files ==
       [name : {CsvName}, size : Sizes, type : {"text/csv"}]
  \cup {f \in [name : Names, size : {1}, type : Types] :
          ~(f.name = CsvName /\ f.type = "text/csv")}

SessionIds == {"s1", "s2"}
Messages == {"boom", "Chunk upload failed"}
Counts == 0..MaxCount

\* upload-state.ts: export const initialState
initialState == [phase |-> "idle"]

\* upload-state.ts: type UploadState, every value of the union within bounds
UploadState ==
       {initialState}
  \cup [phase : {"validating"}, file : FileInfo]
  \cup [phase : {"uploading"}, file : FileInfo, sessionId : SessionIds,
        bytesSent : Counts, bytesTotal : Counts,
        chunksCompleted : Counts, chunksTotal : Counts]
  \cup [phase : {"finalizing"}, file : FileInfo, sessionId : SessionIds]
  \cup [phase : {"done"}, sessionId : SessionIds]
  \cup [phase : {"error"}, message : Messages, retryable : BOOLEAN]
  \cup [phase : {"error"}, message : Messages, retryable : BOOLEAN,
        file : FileInfo]
  \cup [phase : {"error"}, message : Messages, retryable : BOOLEAN,
        file : FileInfo, sessionId : SessionIds]

\* upload-state.ts: type UploadEvent
UploadEvent ==
       [type : {"FILE_SELECTED"}, file : FileInfo]
  \cup [type : {"VALIDATION_PASSED"}, sessionId : SessionIds,
        chunksTotal : Counts]
  \cup [type : {"VALIDATION_FAILED"}, message : Messages]
  \cup [type : {"CHUNK_SENT"}, chunkIndex : Counts, bytesSent : Counts]
  \cup [type : {"CHUNK_FAILED"}, chunkIndex : Counts, message : Messages]
  \cup {[type |-> "FINALIZE_SUCCESS"]}
  \cup [type : {"FINALIZE_FAILED"}, message : Messages]
  \cup {[type |-> "CANCEL"], [type |-> "RESET"]}

\* ------------------------------------------------------------------------
\* transition(state, event), branch by branch
\* ------------------------------------------------------------------------
InFlightPhases == {"validating", "uploading", "finalizing"}
RestPhases == {"idle", "done", "error"}

onCancelAlwaysIdle(state) == initialState

onCancelNoFinalizing(state) ==
  IF state.phase \in {"validating", "uploading"} THEN initialState ELSE state

\* if (event.type === 'CANCEL') { ... }
onCancel(state) ==
  IF state.phase \in InFlightPhases THEN initialState ELSE state

onFileSelectedUnguarded(state, event) ==
  [phase |-> "validating", file |-> event.file]

\* if (event.type === 'FILE_SELECTED') { ... }
onFileSelected(state, event) ==
  IF state.phase \in RestPhases
    THEN [phase |-> "validating", file |-> event.file]
    ELSE state

onValidatingRetryable(state, event) ==
  IF event.type = "VALIDATION_PASSED"
    THEN [phase |-> "uploading", file |-> state.file,
          sessionId |-> event.sessionId, bytesSent |-> 0,
          bytesTotal |-> state.file.size, chunksCompleted |-> 0,
          chunksTotal |-> event.chunksTotal]
    ELSE IF event.type = "VALIDATION_FAILED"
      THEN [phase |-> "error", message |-> event.message,
            retryable |-> TRUE, file |-> state.file]
      ELSE state

\* onValidating taking the number of chunks for the number of bytes
onValidatingCountsChunks(state, event) ==
  IF event.type = "VALIDATION_PASSED"
    THEN [phase |-> "uploading", file |-> state.file,
          sessionId |-> event.sessionId, bytesSent |-> 0,
          bytesTotal |-> event.chunksTotal, chunksCompleted |-> 0,
          chunksTotal |-> event.chunksTotal]
    ELSE IF event.type = "VALIDATION_FAILED"
      THEN [phase |-> "error", message |-> event.message,
            retryable |-> FALSE, file |-> state.file]
      ELSE state

\* case 'validating'
onValidating(state, event) ==
  IF event.type = "VALIDATION_PASSED"
    THEN [phase |-> "uploading", file |-> state.file,
          sessionId |-> event.sessionId, bytesSent |-> 0,
          bytesTotal |-> state.file.size, chunksCompleted |-> 0,
          chunksTotal |-> event.chunksTotal]
    ELSE IF event.type = "VALIDATION_FAILED"
      THEN [phase |-> "error", message |-> event.message,
            retryable |-> FALSE, file |-> state.file]
      ELSE state

onUploadingStrict(state, event) ==
  IF event.type = "CHUNK_SENT"
    THEN IF state.chunksCompleted + 1 > state.chunksTotal
      THEN [phase |-> "finalizing", file |-> state.file,
            sessionId |-> state.sessionId]
      ELSE [state EXCEPT !.bytesSent = event.bytesSent,
                         !.chunksCompleted = state.chunksCompleted + 1]
    ELSE IF event.type = "CHUNK_FAILED"
      THEN [phase |-> "error", message |-> event.message,
            retryable |-> TRUE, file |-> state.file,
            sessionId |-> state.sessionId]
      ELSE state

onUploadingDropsSession(state, event) ==
  IF event.type = "CHUNK_SENT"
    THEN IF state.chunksCompleted + 1 >= state.chunksTotal
      THEN [phase |-> "finalizing", file |-> state.file,
            sessionId |-> state.sessionId]
      ELSE [state EXCEPT !.bytesSent = event.bytesSent,
                         !.chunksCompleted = state.chunksCompleted + 1]
    ELSE IF event.type = "CHUNK_FAILED"
      THEN [phase |-> "error", message |-> event.message,
            retryable |-> TRUE, file |-> state.file]
      ELSE state

\* onUploading taking FINALIZE_SUCCESS as well
onUploadingFinishesEarly(state, event) ==
  IF event.type = "CHUNK_SENT"
    THEN IF state.chunksCompleted + 1 >= state.chunksTotal
      THEN [phase |-> "finalizing", file |-> state.file,
            sessionId |-> state.sessionId]
      ELSE [state EXCEPT !.bytesSent = event.bytesSent,
                         !.chunksCompleted = state.chunksCompleted + 1]
    ELSE IF event.type = "CHUNK_FAILED"
      THEN [phase |-> "error", message |-> event.message,
            retryable |-> TRUE, file |-> state.file,
            sessionId |-> state.sessionId]
    ELSE IF event.type = "FINALIZE_SUCCESS"
      THEN [phase |-> "done", sessionId |-> state.sessionId]
      ELSE state

\* case 'uploading'
onUploading(state, event) ==
  IF event.type = "CHUNK_SENT"
    THEN IF state.chunksCompleted + 1 >= state.chunksTotal
      THEN [phase |-> "finalizing", file |-> state.file,
            sessionId |-> state.sessionId]
      ELSE [state EXCEPT !.bytesSent = event.bytesSent,
                         !.chunksCompleted = state.chunksCompleted + 1]
    ELSE IF event.type = "CHUNK_FAILED"
      THEN [phase |-> "error", message |-> event.message,
            retryable |-> TRUE, file |-> state.file,
            sessionId |-> state.sessionId]
      ELSE state

\* case 'finalizing'
onFinalizing(state, event) ==
  IF event.type = "FINALIZE_SUCCESS"
    THEN [phase |-> "done", sessionId |-> state.sessionId]
    ELSE IF event.type = "FINALIZE_FAILED"
      THEN [phase |-> "error", message |-> event.message,
            retryable |-> TRUE, file |-> state.file,
            sessionId |-> state.sessionId]
      ELSE state

\* export function transition(state, event)
transition(state, event) ==
  IF event.type = "RESET" THEN initialState
  ELSE IF event.type = "CANCEL" THEN onCancel(state)
  ELSE IF event.type = "FILE_SELECTED" THEN onFileSelected(state, event)
  ELSE IF state.phase = "validating" THEN onValidating(state, event)
  ELSE IF state.phase = "uploading" THEN onUploading(state, event)
  ELSE IF state.phase = "finalizing" THEN onFinalizing(state, event)
  ELSE state

\* ------------------------------------------------------------------------
\* State
\* ------------------------------------------------------------------------
VARIABLES
  smPrev,           \* the state transition() was last applied to
  smEvent,          \* the event it was applied with (NoEvent before the first)
  smState,          \* the state it returned
  chunkSize,        \* config.chunkSize
  maxRetries,       \* config.maxRetries
  retryDelayMs,     \* config.retryDelayMs
  currentState,     \* let currentState
  abortController,  \* let abortController: 0 is null, n the one made by start n
  aborted,          \* the controllers whose signal is aborted
  att,              \* the local variables and position of each start() call
  nStarts,          \* the number of start() calls made
  nCancels,         \* the number of cancel() calls made
  snapshots,        \* what config.onStateChange has received, in order
  events,           \* the events passed to emit, in order, with their origin
  calls,            \* the operations start() awaited, in order: init,
                    \* sendChunk, finalize, blob.arrayBuffer and the retry
                    \* delay, each with its outcome
  wizard,           \* UploadWizard: its state, its refs, the state and the
                    \* ref of useChunkedUpload, the orchestrators made by the
                    \* hook and the handleStart calls awaiting the filter
  filterRun,        \* one call of filterUploadableFiles: its argument, the
                    \* validations settled so far and what it resolved with
  validation,       \* one call of validateCsvContent: the content and the result
  analysis,         \* one call of analyzeColumns: the rows and the statistics
  preview,          \* one call of parseCsvPreview: the text and what it returned
  smRun             \* a run of the state machine from Idle: the events since
                    \* the most recent FILE_SELECTED or RESET

smVars == <<smPrev, smEvent, smState>>

configVars == <<chunkSize, maxRetries, retryDelayMs>>

wizVars == <<wizard, filterRun, validation, analysis, preview, smRun>>

orchVars == <<currentState, abortController, aborted, att, nStarts, nCancels,
              snapshots, events, calls>>

vars == <<smPrev, smEvent, smState, chunkSize, maxRetries, retryDelayMs,
          currentState, abortController, aborted, att, nStarts, nCancels,
          snapshots, events, calls,
          wizard, filterRun, validation, analysis, preview, smRun>>

NoEvent == [type |-> "none"]

\* the start() calls on one orchestrator. Every caller creates a new
\* orchestrator for each upload (useChunkedUpload.ts, start), so Spec has the
\* first only; SpecRestart adds a second one.
Attempts == {1, 2}

\* ------------------------------------------------------------------------
\* Helpers of the orchestrator
\* ------------------------------------------------------------------------
CsvSuffix == <<".", "c", "s", "v">>

\* String.prototype.endsWith
endsWith(str, suffix) ==
  /\ Len(str) >= Len(suffix)
  /\ SubSeq(str, Len(str) - Len(suffix) + 1, Len(str)) = suffix

\* Math.ceil(x / y) for integers x >= 0, y >= 1
ceilDiv(x, y) == (x + y - 1) \div y

min(x, y) == IF x < y THEN x ELSE y

\* what a rejected promise carries: an Error with a message, or something else
Rejections == {[isError |-> TRUE, message |-> "boom"], [isError |-> FALSE]}

\* err instanceof Error ? err.message : fallback
errMessage(err, fallback) == IF err.isError THEN err.message ELSE fallback

Cancel == [type |-> "CANCEL"]

\* emit(event) applied to each event of evs in turn, from state: the final
\* currentState
RECURSIVE emitState(_, _)
emitState(state, evs) ==
  IF evs = <<>> THEN state
  ELSE emitState(transition(state, Head(evs)), Tail(evs))

\* emitSnapshots notifying before the transition is applied
RECURSIVE emitSnapshotsStale(_, _)
emitSnapshotsStale(state, evs) ==
  IF evs = <<>> THEN <<>>
  ELSE <<state>> \o emitSnapshotsStale(transition(state, Head(evs)), Tail(evs))

\* ... and what config.onStateChange receives, one snapshot per event
RECURSIVE emitSnapshots(_, _)
emitSnapshots(state, evs) ==
  IF evs = <<>> THEN <<>>
  ELSE <<transition(state, Head(evs))>>
         \o emitSnapshots(transition(state, Head(evs)), Tail(evs))

\* function isAborted()
isAborted == abortController # 0 /\ abortController \in aborted

\* the outcome of the pending call of an attempt is recorded in the call log
settle(a, outcome) ==
  IF att[a].call = 0 THEN calls
  ELSE [calls EXCEPT ![att[a].call].outcome = outcome]

\* the pending call of an attempt rejects with err
settleRejected(a, err) ==
  [calls EXCEPT ![att[a].call] =
     [f \in DOMAIN @ \cup {"err"} |->
        IF f = "err" THEN err ELSE IF f = "outcome" THEN "fail" ELSE @[f]]]

\* One synchronous stretch of start() for attempt a: the events it emits,
\* the locals and position it ends with, and the call it issues, if any.
advance(a, loc, evs, log, newCalls) ==
  /\ currentState' = emitState(currentState, evs)
  /\ snapshots' = snapshots \o emitSnapshots(currentState, evs)
  /\ events' = events \o [k \in 1..Len(evs) |-> [by |-> a, event |-> evs[k]]]
  /\ att' = [att EXCEPT ![a] = loc]
  /\ calls' = log \o newCalls
  /\ UNCHANGED <<abortController, aborted, nStarts, nCancels>>
  /\ UNCHANGED <<smVars, configVars, wizVars>>

returns(loc) == [loc EXCEPT !.pc = "returned", !.call = 0]

\* await sendChunk(sessionId, i, buf, signal)
callSendChunk(a, loc, log) ==
  advance(a, [loc EXCEPT !.pc = "awaitSend", !.call = Len(log) + 1], <<>>, log,
          << [op |-> "sendChunk", by |-> a, sessionId |-> loc.sessionId,
              chunkIndex |-> loc.i, startByte |-> loc.startByte,
              endByte |-> loc.endByte, signal |-> a,
              signalAborted |-> (a \in aborted), outcome |-> "pending"] >>)

\* await finalize(sessionId, signal)
callFinalize(a, loc, evs, log) ==
  advance(a, [loc EXCEPT !.pc = "awaitFinalize", !.call = Len(log) + 1], evs,
          log,
          << [op |-> "finalize", by |-> a, sessionId |-> loc.sessionId,
              signal |-> a, signalAborted |-> (a \in aborted),
              outcome |-> "pending"] >>)

\* chunkLoop slicing a whole chunk whatever is left of the file
chunkLoopNoMin(a, loc, evs, log) ==
  IF loc.i < loc.chunksTotal
    THEN IF isAborted
      THEN advance(a, returns(loc), evs \o <<Cancel>>, log, <<>>)
      ELSE advance(a, [loc EXCEPT !.pc = "awaitRead", !.call = Len(log) + 1,
                         !.attempt = 0,
                         !.startByte = loc.i * chunkSize,
                         !.endByte = loc.i * chunkSize + chunkSize],
                   evs, log,
                   << [op |-> "arrayBuffer", by |-> a, chunkIndex |-> loc.i,
                       outcome |-> "pending"] >>)
    ELSE callFinalize(a, loc, evs, log)

\* for (let i = 0; i < chunksTotal; i++) { ...: the loop test, the abort
\* check and the slice, up to await blob.arrayBuffer(); after the loop, the
\* call of finalize.
chunkLoop(a, loc, evs, log) ==
  IF loc.i < loc.chunksTotal
    THEN IF isAborted
      THEN advance(a, returns(loc), evs \o <<Cancel>>, log, <<>>)
      ELSE advance(a, [loc EXCEPT !.pc = "awaitRead", !.call = Len(log) + 1,
                         !.attempt = 0,
                         !.startByte = loc.i * chunkSize,
                         !.endByte = min(loc.i * chunkSize + chunkSize,
                                         loc.file.size)],
                   evs, log,
                   << [op |-> "arrayBuffer", by |-> a, chunkIndex |-> loc.i,
                       outcome |-> "pending"] >>)
    ELSE callFinalize(a, loc, evs, log)

\* outerCatch without the abort check
outerCatchNoCheck(a, loc, log) ==
  advance(a, returns(loc),
    << [type |-> "VALIDATION_PASSED", sessionId |-> "",
        chunksTotal |-> loc.chunksTotal],
       [type |-> "CHUNK_FAILED", chunkIndex |-> 0,
        message |-> "Could not start upload. Check your connection."] >>,
    log, <<>>)

\* outerCatch without the shim: the failure is emitted in Validating
outerCatchNoShim(a, loc, log) ==
  IF isAborted
    THEN advance(a, returns(loc), <<Cancel>>, log, <<>>)
    ELSE advance(a, returns(loc),
           << [type |-> "CHUNK_FAILED", chunkIndex |-> 0,
               message |-> "Could not start upload. Check your connection."] >>,
           log, <<>>)

\* catch (err) of the outer try: init failed (or the chunk read threw)
outerCatch(a, loc, log) ==
  IF isAborted
    THEN advance(a, returns(loc), <<Cancel>>, log, <<>>)
    ELSE advance(a, returns(loc),
           << [type |-> "VALIDATION_PASSED", sessionId |-> "",
               chunksTotal |-> loc.chunksTotal],
              [type |-> "CHUNK_FAILED", chunkIndex |-> 0,
               message |-> "Could not start upload. Check your connection."] >>,
           log, <<>>)

\* ------------------------------------------------------------------------
\* The orchestrator
\* ------------------------------------------------------------------------
Unborn ==
  [pc |-> "unborn", file |-> [name |-> <<>>, size |-> 0, type |-> ""],
   chunksTotal |-> 0, sessionId |-> "", i |-> 0, attempt |-> 0,
   startByte |-> 0, endByte |-> 0, call |-> 0]

OrchInit ==
  /\ currentState = initialState
  /\ abortController = 0
  /\ aborted = {}
  /\ att = [a \in Attempts |-> Unborn]
  /\ nStarts = 0
  /\ nCancels = 0
  /\ snapshots = <<>>
  /\ events = <<>>
  /\ calls = <<>>

\* isUploadable blocking on any warning
isUploadableNoWarnings(result) ==
  IF ~result.valid THEN FALSE
  ELSE ~("warnings" \in DOMAIN result /\ Len(result.warnings) > 0)

\* export function isUploadable(result); a result without warnings has no
\* warnings field
isUploadable(result) ==
  IF ~result.valid THEN FALSE
  ELSE ~(/\ "warnings" \in DOMAIN result
         /\ \E k \in 1..Len(result.warnings) : result.warnings[k] = "no-data")

\* the warnings of validateCsvContent, in the order it pushes them
Warnings == <<"no-header", "duplicate-columns", "no-data", "mixed-types">>

\* export type CsvValidationResult: valid with no warnings field, valid with
\* a non-empty array of warnings, or invalid
CsvValidationResult ==
  {[valid |-> TRUE]}
    \cup {[valid |-> TRUE, warnings |-> SelectSeq(Warnings, LAMBDA x : x \in S)]
            : S \in (SUBSET {"no-header", "duplicate-columns", "no-data",
                             "mixed-types"}) \ {{}}}
    \cup {[valid |-> FALSE, error |-> "Not a valid CSV file"]}

\* no call of validateCsvContent
NoValidation ==
  [content |-> [lines |-> <<>>, brokenQuote |-> FALSE],
   result |-> [pending |-> TRUE]]

\* no call of analyzeColumns
NoAnalysis ==
  [dateParse |-> <<>>, rows |-> <<>>, stats |-> [pending |-> TRUE]]

\* no call of parseCsvPreview
NoPreview == [csvText |-> <<>>, out |-> [pending |-> TRUE]]

\* no event applied yet
NoRun == [n |-> 0, received |-> <<>>, applied |-> <<>>]

\* no call of filterUploadableFiles
NoFilterRun ==
  [files |-> <<>>, results |-> <<>>, order |-> <<>>, out |-> [pending |-> TRUE]]

\* UploadWizard when it is mounted: useState, useRef and useChunkedUpload
\* with their initial values, no orchestrator made, no handleStart pending
Mounted ==
  [pendingFiles |-> <<>>, completedUploads |-> <<>>, uploadingIndex |-> -1,
   state |-> initialState, orchestratorRef |-> 0, prevPhaseRef |-> "idle",
   validFilesRef |-> <<>>, orchs |-> <<>>, filters |-> <<>>,
   deps |-> <<"idle", "null", -1>>]

Init ==
  /\ smPrev = initialState
  /\ smState = initialState
  /\ smEvent = NoEvent
  /\ chunkSize \in 1..MaxChunkSize
  /\ maxRetries \in 0..MaxRetriesBound
  /\ retryDelayMs \in {0, 1000}
  /\ OrchInit
  /\ wizard = Mounted
  /\ smRun = NoRun
  /\ preview = NoPreview
  /\ filterRun = NoFilterRun
  /\ validation = NoValidation
  /\ analysis = NoAnalysis

\* validate without the check of the size
validateNoEmptyCheck(file) ==
  IF ~endsWith(file.name, CsvSuffix) /\ file.type # "text/csv"
    THEN << [type |-> "VALIDATION_FAILED",
             message |-> "Please select a CSV file."] >>
    ELSE <<>>

\* // Validate: the event emitted when the file is rejected, if it is
validate(file) ==
  IF ~endsWith(file.name, CsvSuffix) /\ file.type # "text/csv"
    THEN << [type |-> "VALIDATION_FAILED",
             message |-> "Please select a CSV file."] >>
  ELSE IF file.size = 0
    THEN << [type |-> "VALIDATION_FAILED",
             message |-> "This file appears to be empty."] >>
    ELSE <<>>

\* async function start(file), up to await init(fileInfo, signal)
startCall(file) ==
    LET a == nStarts + 1
        fileInfo == [name |-> file.name, size |-> file.size,
                     type |-> file.type]
        selected == [type |-> "FILE_SELECTED", file |-> fileInfo]
        loc == [Unborn EXCEPT !.file = fileInfo]
        evs == <<selected>> \o validate(file)
        rejected == Len(evs) = 2
    IN
    /\ nStarts' = a
    /\ abortController' = a
    /\ currentState' = emitState(initialState, evs)
    /\ snapshots' = snapshots \o emitSnapshots(initialState, evs)
    /\ events' = events \o [k \in 1..Len(evs) |-> [by |-> a, event |-> evs[k]]]
    /\ IF rejected
         THEN /\ att' = [att EXCEPT ![a] = returns(loc)]
              /\ calls' = calls
         ELSE /\ att' = [att EXCEPT ![a] =
                    [loc EXCEPT !.pc = "awaitInit",
                                !.chunksTotal = ceilDiv(file.size, chunkSize),
                                !.call = Len(calls) + 1]]
              /\ calls' = Append(calls,
                    [op |-> "init", by |-> a, file |-> fileInfo, signal |-> a,
                     signalAborted |-> FALSE, outcome |-> "pending"])
    /\ UNCHANGED <<aborted, nCancels, smVars, configVars, wizVars>>

\* the one start(file) call made on an orchestrator
start ==
  /\ nStarts = 0
  /\ \E file \in Files : startCall(file)

\* start(file) called again with the same file, while the first attempt has
\* been cancelled and still has an operation pending
restart ==
  /\ nStarts = 1
  /\ 1 \in aborted
  /\ att[1].pc \notin {"unborn", "returned"}
  /\ startCall(att[1].file)

\* const { sessionId } = await init(...) resolves
initResolved(a) ==
  \E sid \in SessionIds :
    /\ att[a].pc = "awaitInit"
    /\ IF isAborted
         THEN advance(a, returns(att[a]), <<Cancel>>, settle(a, "ok"), <<>>)
         ELSE chunkLoop(a, [att[a] EXCEPT !.sessionId = sid, !.i = 0],
                        << [type |-> "VALIDATION_PASSED", sessionId |-> sid,
                            chunksTotal |-> att[a].chunksTotal] >>,
                        settle(a, "ok"))

\* await init(...) rejects
initRejected(a) ==
  /\ att[a].pc = "awaitInit"
  /\ outerCatch(a, att[a], settle(a, "fail"))

\* const buf = await blob.arrayBuffer() resolves; first pass of the retry loop
readResolved(a) ==
  /\ att[a].pc = "awaitRead"
  /\ IF 1 <= maxRetries
       THEN callSendChunk(a, [att[a] EXCEPT !.attempt = 1], settle(a, "ok"))
       ELSE chunkLoop(a, [att[a] EXCEPT !.i = att[a].i + 1], <<>>,
                      settle(a, "ok"))

\* await blob.arrayBuffer() rejects
readRejected(a) ==
  /\ att[a].pc = "awaitRead"
  /\ outerCatch(a, att[a], settle(a, "fail"))

\* sendChunkResolved without the abort check after the await
sendChunkResolvedNoCheck(a) ==
  /\ att[a].pc = "awaitSend"
  /\ chunkLoop(a, [att[a] EXCEPT !.i = att[a].i + 1],
               << [type |-> "CHUNK_SENT", chunkIndex |-> att[a].i,
                   bytesSent |-> att[a].endByte] >>,
               settle(a, "ok"))

\* sendChunkResolved reporting the bytes sent before the chunk
sendChunkResolvedStartByte(a) ==
  /\ att[a].pc = "awaitSend"
  /\ IF isAborted
       THEN advance(a, returns(att[a]), <<Cancel>>, settle(a, "ok"), <<>>)
       ELSE chunkLoop(a, [att[a] EXCEPT !.i = att[a].i + 1],
                      << [type |-> "CHUNK_SENT", chunkIndex |-> att[a].i,
                          bytesSent |-> att[a].startByte] >>,
                      settle(a, "ok"))

\* await sendChunk(...) resolves
sendChunkResolved(a) ==
  /\ att[a].pc = "awaitSend"
  /\ IF isAborted
       THEN advance(a, returns(att[a]), <<Cancel>>, settle(a, "ok"), <<>>)
       ELSE chunkLoop(a, [att[a] EXCEPT !.i = att[a].i + 1],
                      << [type |-> "CHUNK_SENT", chunkIndex |-> att[a].i,
                          bytesSent |-> att[a].endByte] >>,
                      settle(a, "ok"))

\* sendChunkRejected giving up one attempt early
sendChunkRejectedEarly(a) ==
  \E err \in Rejections :
    /\ att[a].pc = "awaitSend"
    /\ IF isAborted
         THEN advance(a, returns(att[a]), <<Cancel>>, settleRejected(a, err), <<>>)
       ELSE IF att[a].attempt + 1 >= maxRetries
         THEN advance(a, returns(att[a]),
                << [type |-> "CHUNK_FAILED", chunkIndex |-> att[a].i,
                    message |-> errMessage(err, "Chunk upload failed")] >>,
                settleRejected(a, err), <<>>)
       ELSE IF retryDelayMs > 0
         THEN advance(a, [att[a] EXCEPT !.pc = "awaitDelay",
                                        !.call = Len(calls) + 1],
                      <<>>, settleRejected(a, err),
                      << [op |-> "setTimeout", by |-> a,
                          outcome |-> "pending"] >>)
         ELSE callSendChunk(a, [att[a] EXCEPT !.attempt = att[a].attempt + 1],
                            settleRejected(a, err))

\* sendChunkRejected going on to the next chunk when the retries are used up
sendChunkRejectedSkips(a) ==
  \E err \in Rejections :
    /\ att[a].pc = "awaitSend"
    /\ IF isAborted
         THEN advance(a, returns(att[a]), <<Cancel>>, settleRejected(a, err), <<>>)
       ELSE IF att[a].attempt >= maxRetries
         THEN chunkLoop(a, [att[a] EXCEPT !.i = att[a].i + 1],
                << [type |-> "CHUNK_FAILED", chunkIndex |-> att[a].i,
                    message |-> errMessage(err, "Chunk upload failed")] >>,
                settleRejected(a, err))
       ELSE IF retryDelayMs > 0
         THEN advance(a, [att[a] EXCEPT !.pc = "awaitDelay",
                                        !.call = Len(calls) + 1],
                      <<>>, settleRejected(a, err),
                      << [op |-> "setTimeout", by |-> a,
                          outcome |-> "pending"] >>)
         ELSE callSendChunk(a, [att[a] EXCEPT !.attempt = att[a].attempt + 1],
                            settleRejected(a, err))

\* catch (err) of the retry loop: await sendChunk(...) rejected with err
sendChunkCatch(a, err) ==
  /\ att[a].pc = "awaitSend"
  /\ IF isAborted
       THEN advance(a, returns(att[a]), <<Cancel>>, settleRejected(a, err), <<>>)
     ELSE IF att[a].attempt >= maxRetries
       THEN advance(a, returns(att[a]),
              << [type |-> "CHUNK_FAILED", chunkIndex |-> att[a].i,
                  message |-> errMessage(err, "Chunk upload failed")] >>,
              settleRejected(a, err), <<>>)
     ELSE IF retryDelayMs > 0
       THEN advance(a, [att[a] EXCEPT !.pc = "awaitDelay",
                                      !.call = Len(calls) + 1],
                    <<>>, settleRejected(a, err),
                    << [op |-> "setTimeout", by |-> a,
                        outcome |-> "pending"] >>)
       ELSE callSendChunk(a, [att[a] EXCEPT !.attempt = att[a].attempt + 1],
                          settleRejected(a, err))

\* await sendChunk(...) rejects
sendChunkRejected(a) ==
  \E err \in Rejections : sendChunkCatch(a, err)

\* await new Promise((r) => setTimeout(r, config.retryDelayMs)) resolves
retryDelayElapsed(a) ==
  /\ att[a].pc = "awaitDelay"
  /\ callSendChunk(a, [att[a] EXCEPT !.attempt = att[a].attempt + 1],
                   settle(a, "ok"))

\* await finalize(...) resolves
finalizeResolved(a) ==
  /\ att[a].pc = "awaitFinalize"
  /\ advance(a, returns(att[a]),
             IF isAborted THEN <<Cancel>>
                          ELSE << [type |-> "FINALIZE_SUCCESS"] >>,
             settle(a, "ok"), <<>>)

\* finalizeRejected reporting the failure as a chunk failure
finalizeRejectedAsChunkFailed(a) ==
  \E err \in Rejections :
    /\ att[a].pc = "awaitFinalize"
    /\ advance(a, returns(att[a]),
               IF isAborted
                 THEN <<Cancel>>
                 ELSE << [type |-> "CHUNK_FAILED", chunkIndex |-> att[a].i,
                          message |-> errMessage(err, "finalize failed")] >>,
               settleRejected(a, err), <<>>)

\* await finalize(...) rejects and start() returns without emitting
finalizeRejectedSilent(a) ==
  \E err \in Rejections :
    /\ att[a].pc = "awaitFinalize"
    /\ advance(a, returns(att[a]),
               IF isAborted THEN <<Cancel>> ELSE <<>>,
               settleRejected(a, err), <<>>)

\* await finalize(...) rejects
finalizeRejected(a) ==
  \E err \in Rejections :
    /\ att[a].pc = "awaitFinalize"
    /\ advance(a, returns(att[a]),
               IF isAborted
                 THEN <<Cancel>>
                 ELSE << [type |-> "FINALIZE_FAILED",
                          message |-> errMessage(err, "finalize failed")] >>,
               settleRejected(a, err), <<>>)

\* function cancel()
cancel ==
  /\ nCancels < MaxCancels
  /\ nCancels' = nCancels + 1
  /\ aborted' = IF abortController # 0 THEN aborted \cup {abortController}
                                       ELSE aborted
  /\ currentState' = emitState(currentState, <<Cancel>>)
  /\ snapshots' = snapshots \o emitSnapshots(currentState, <<Cancel>>)
  /\ events' = Append(events, [by |-> 0, event |-> Cancel])
  /\ UNCHANGED <<abortController, att, nStarts, calls, smVars, configVars, wizVars>>

Next ==
  \/ start
  \/ cancel
  \/ \E a \in Attempts : initResolved(a)
  \/ \E a \in Attempts : initRejected(a)
  \/ \E a \in Attempts : readResolved(a)
  \/ \E a \in Attempts : readRejected(a)
  \/ \E a \in Attempts : sendChunkResolved(a)
  \/ \E a \in Attempts : sendChunkRejected(a)
  \/ \E a \in Attempts : retryDelayElapsed(a)
  \/ \E a \in Attempts : finalizeResolved(a)
  \/ \E a \in Attempts : finalizeRejected(a)

Spec == Init /\ [][Next]_vars

\* ------------------------------------------------------------------------
\* The orchestrator when cancel() is never called and every injected
\* operation and retry delay settles
\* ------------------------------------------------------------------------
\* the pending operation or delay of the attempt settles
Settle ==
  \/ initResolved(1)
  \/ initRejected(1)
  \/ readResolved(1)
  \/ readRejected(1)
  \/ sendChunkResolved(1)
  \/ sendChunkRejected(1)
  \/ retryDelayElapsed(1)
  \/ finalizeResolved(1)
  \/ finalizeRejected(1)

NextSettles ==
  \/ start
  \/ Settle

\* a configuration that sends every chunk at least once
SettlesInit ==
  /\ Init
  /\ maxRetries >= 1

\* what is pending eventually settles, one way or the other
SpecSettles == SettlesInit /\ [][NextSettles]_vars /\ WF_vars(Settle)

\* ------------------------------------------------------------------------
\* The orchestrator with start() called a second time
\* ------------------------------------------------------------------------
\* The second attempt's init is left pending (an injected operation need
\* not settle): the steps after restart are those of the first attempt.
NextRestart ==
  \/ start
  \/ cancel
  \/ restart
  \/ initResolved(1)
  \/ initRejected(1)
  \/ readResolved(1)
  \/ readRejected(1)
  \/ sendChunkResolved(1)
  \/ sendChunkRejected(1)
  \/ retryDelayElapsed(1)
  \/ finalizeResolved(1)
  \/ finalizeRejected(1)

SpecRestart == Init /\ [][NextRestart]_vars

\* ------------------------------------------------------------------------
\* Retry: start() called again with the same file after a retryable Error
\* ------------------------------------------------------------------------
\* a retry that would resume at the chunk that failed, in the earlier session
retryResumes ==
  /\ nStarts = 1
  /\ att[1].pc = "returned"
  /\ currentState.phase = "error"
  /\ currentState.retryable
  /\ nStarts' = 2
  /\ abortController' = 2
  /\ UNCHANGED <<currentState, snapshots, events, aborted, nCancels>>
  /\ UNCHANGED <<smVars, configVars, wizVars>>
  /\ att' = [att EXCEPT ![2] =
         [att[1] EXCEPT !.pc = "awaitRead", !.call = Len(calls) + 1,
                        !.attempt = 0]]
  /\ calls' = Append(calls, [op |-> "arrayBuffer", by |-> 2,
                             chunkIndex |-> att[1].i, outcome |-> "pending"])

\* onClick={() => start(validFilesRef.current[uploadingIndex])}: the Retry
\* button, shown in Error when retryable; start of the hook makes a new
\* orchestrator and calls its start(file)
retry ==
  /\ nStarts = 1
  /\ att[1].pc = "returned"
  /\ currentState.phase = "error"
  /\ currentState.retryable
  /\ startCall(att[1].file)

NextRetry ==
  \/ start
  \/ retry
  \/ \E a \in Attempts : initResolved(a)
  \/ \E a \in Attempts : initRejected(a)
  \/ \E a \in Attempts : readResolved(a)
  \/ \E a \in Attempts : readRejected(a)
  \/ \E a \in Attempts : sendChunkResolved(a)
  \/ \E a \in Attempts : sendChunkRejected(a)
  \/ \E a \in Attempts : retryDelayElapsed(a)
  \/ \E a \in Attempts : finalizeResolved(a)
  \/ \E a \in Attempts : finalizeRejected(a)

\* chunks of the largest size: a file has at most two chunks
RetryInit ==
  /\ Init
  /\ chunkSize = MaxChunkSize

SpecRetry == RetryInit /\ [][NextRetry]_vars

\* ------------------------------------------------------------------------
\* The orchestrator as useChunkedUpload builds it: sendChunk is sendChunkFn
\* ------------------------------------------------------------------------
\* what await fetch("/api/upload/chunk", ...) gives: a response with a
\* status, or a rejection (network error)
FetchOutcomes ==
  [kind : {"response"}, status : {200, 400, 500}] \cup [kind : {"network"}]

\* res.ok
ok(res) == res.status >= 200 /\ res.status <= 299

\* `Chunk ${idx} upload failed (${res.status})`
chunkFailedMessage(idx, status) ==
  CASE idx = 0 /\ status = 400 -> "Chunk 0 upload failed (400)"
    [] idx = 0 /\ status = 500 -> "Chunk 0 upload failed (500)"
    [] idx = 1 /\ status = 400 -> "Chunk 1 upload failed (400)"
    [] idx = 1 /\ status = 500 -> "Chunk 1 upload failed (500)"
    [] OTHER -> "Chunk n upload failed (status)"

\* what sendChunkFn throws for a fetch outcome that is not an ok response;
\* cause records the outcome it was thrown for
sendChunkFnError(idx, res) ==
  IF res.kind = "network"
    THEN [isError |-> TRUE, message |-> "Failed to fetch",
          cause |-> "network"]
    ELSE [isError |-> TRUE, message |-> chunkFailedMessage(idx, res.status),
          cause |-> IF res.status >= 500 THEN "5xx" ELSE "4xx"]

\* await sendChunk(...) settles, sendChunk being sendChunkFn of the hook
sendChunkFn(a) ==
  \E res \in FetchOutcomes :
    IF res.kind = "response" /\ ok(res)
      THEN sendChunkResolved(a)
      ELSE sendChunkCatch(a, sendChunkFnError(att[a].i, res))

\* maxRetries: options?.maxRetries ?? 3, retryDelayMs: ... ?? 1000; chunks of
\* the largest size
HookInit ==
  /\ smPrev = initialState
  /\ smState = initialState
  /\ smEvent = NoEvent
  /\ chunkSize = MaxChunkSize
  /\ maxRetries = 3
  /\ retryDelayMs = 1000
  /\ OrchInit
  /\ wizard = Mounted
  /\ smRun = NoRun
  /\ preview = NoPreview
  /\ filterRun = NoFilterRun
  /\ validation = NoValidation
  /\ analysis = NoAnalysis

NextHook ==
  \/ start
  \/ \E a \in Attempts : initResolved(a)
  \/ \E a \in Attempts : initRejected(a)
  \/ \E a \in Attempts : readResolved(a)
  \/ \E a \in Attempts : readRejected(a)
  \/ \E a \in Attempts : sendChunkFn(a)
  \/ \E a \in Attempts : retryDelayElapsed(a)
  \/ \E a \in Attempts : finalizeResolved(a)
  \/ \E a \in Attempts : finalizeRejected(a)

SpecHook == HookInit /\ [][NextHook]_vars

\* ------------------------------------------------------------------------
\* UploadWizard: the multi-file sequencer over useChunkedUpload
\* ------------------------------------------------------------------------
\* Each orchestrator the hook makes runs one start(file), here for a file of
\* one chunk with maxRetries = 1: init, one sendChunk, finalize. Each
\* handler, continuation and effect below maps a value of the variable
\* wizard to the next one.

\* The files a user can select: CSV files of one byte, with what
\* validateCsvFile resolves with for them: a and b are valid without a
\* warning, h has a header and no data
FileA ==
  [name |-> <<"a", ".", "c", "s", "v">>, size |-> 1, type |-> "text/csv",
   result |-> [valid |-> TRUE]]

FileB ==
  [name |-> <<"b", ".", "c", "s", "v">>, size |-> 1, type |-> "text/csv",
   result |-> [valid |-> TRUE]]

FileH ==
  [name |-> <<"h", ".", "c", "s", "v">>, size |-> 1, type |-> "text/csv",
   result |-> [valid |-> TRUE, warnings |-> <<"no-data">>]]

\* what the user selects at once
Selections == {<<FileA>>, <<FileA, FileB>>, <<FileH, FileB>>}

\* the session id the server gives to the init call of the n-th orchestrator
SessionOf(n) ==
  <<"s1", "s2", "s3", "s4", "s5", "s6", "s7", "s8">>[n]

\* const sessionId = (() => { ... })() of the hook
hookSessionId(state) ==
  IF state.phase \in {"uploading", "finalizing", "done"} THEN state.sessionId
  ELSE IF /\ state.phase = "error"
          /\ "sessionId" \in DOMAIN state
          /\ state.sessionId # ""
    THEN state.sessionId
    ELSE "null"

\* a session id that is neither null nor the empty string
truthy(sid) == sid \notin {"null", ""}

\* emit(event) of orchestrator o, with onStateChange: setState
orchEmit(w, o, event) ==
  LET next == transition(w.orchs[o].cur, event)
  IN [w EXCEPT !.orchs[o].cur = next, !.state = next]

\* cancel() of orchestrator o
orchCancel(w, o) ==
  orchEmit([w EXCEPT !.orchs[o].aborted = TRUE], o, Cancel)

\* const cancel = useCallback(...) of the hook
hookCancel(w) ==
  IF w.orchestratorRef = 0 THEN w ELSE orchCancel(w, w.orchestratorRef)

\* const reset = useCallback(...) of the hook
hookReset(w) ==
  [hookCancel(w) EXCEPT !.orchestratorRef = 0, !.state = initialState]

\* const start = useCallback(async (file) => ...) of the hook: a new
\* orchestrator, and its start(file) up to await init(...)
hookStart(w, file) ==
  LET o == Len(w.orchs) + 1
      fileInfo == [name |-> file.name, size |-> file.size, type |-> file.type]
      made == [w EXCEPT !.orchs = Append(@, [file |-> fileInfo,
                                             cur |-> initialState,
                                             aborted |-> FALSE,
                                             pc |-> "awaitInit",
                                             sessionId |-> ""]),
                        !.orchestratorRef = o]
      selected == orchEmit(made, o, [type |-> "FILE_SELECTED",
                                     file |-> fileInfo])
  IN IF validate(file) = <<>>
       THEN selected
       ELSE [orchEmit(selected, o, validate(file)[1])
               EXCEPT !.orchs[o].pc = "returned"]

\* const allDone = ...
allDone(w) ==
  /\ Len(w.validFilesRef) > 0
  /\ Len(w.completedUploads) = Len(w.validFilesRef)
  /\ w.state.phase = "done"

\* [state.phase, sessionId, uploadingIndex, reset, start]
Deps(w) == <<w.state.phase, hookSessionId(w.state), w.uploadingIndex>>

\* useEffect(() => { ... }): record the file that finished and start the next
effect(w) ==
  LET prevPhase == w.prevPhaseRef
      sessionId == hookSessionId(w.state)
      idx == w.uploadingIndex
      w1 == [w EXCEPT !.prevPhaseRef = w.state.phase]
      w2 == IF idx + 1 \in 1..Len(w.validFilesRef)
              THEN [w1 EXCEPT !.completedUploads =
                      Append(@, [name |-> w.validFilesRef[idx + 1].name,
                                 sessionId |-> sessionId])]
              ELSE w1
      nextIndex == idx + 1
  IN IF w.state.phase = "done" /\ prevPhase # "done" /\ truthy(sessionId)
       THEN IF nextIndex < Len(w.validFilesRef)
              THEN hookStart(hookReset([w2 EXCEPT !.uploadingIndex = nextIndex]),
                             w.validFilesRef[nextIndex + 1])
              ELSE w2
       ELSE w1

\* React renders after a handler or continuation has run and runs the effect
\* when one of its dependencies has changed, again after the effect's own
\* updates
RECURSIVE afterRender(_)
afterRender(w) ==
  IF Deps(w) = w.deps THEN w
  ELSE afterRender(effect([w EXCEPT !.deps = Deps(w)]))

\* a handler or continuation has taken the wizard to w; the number of
\* orchestrators is bounded
commit(w) ==
  LET rendered == afterRender(w)
  IN /\ Len(rendered.orchs) <= MaxOrchestrators
     /\ wizard' = rendered
     /\ UNCHANGED <<smVars, configVars, orchVars, filterRun, validation, analysis, preview,
                 smRun>>

\* const handleFilesSelected = (selected) => ...; the DropZone is rendered
\* when idle or all done
handleFilesSelected ==
  \E selected \in Selections :
    /\ wizard.state.phase = "idle" \/ allDone(wizard)
    /\ Len(wizard.pendingFiles) + Len(selected) <= MaxPending
    /\ LET w == IF allDone(wizard)
                  THEN [hookReset(wizard) EXCEPT !.completedUploads = <<>>,
                                                 !.uploadingIndex = -1,
                                                 !.validFilesRef = <<>>]
                  ELSE wizard
       IN commit([w EXCEPT !.pendingFiles = @ \o selected])

\* const handleRemoveFile = (index) => ...; the list is rendered when idle
handleRemoveFile ==
  \E index \in 1..Len(wizard.pendingFiles) :
    /\ wizard.state.phase = "idle"
    /\ commit([wizard EXCEPT !.pendingFiles =
                 SubSeq(@, 1, index - 1) \o SubSeq(@, index + 1, Len(@))])

\* export async function filterUploadableFiles(files): what it resolves with
filterUploadableFiles(files) ==
  SelectSeq(files, LAMBDA f : isUploadable(f.result))

\* const handleStart = async () => ..., up to await filterUploadableFiles(
\* pendingFiles); the Start button is rendered when idle with pending
\* files, and enabled when one of them is uploadable
handleStart ==
  /\ wizard.state.phase = "idle"
  /\ \E k \in 1..Len(wizard.pendingFiles) : isUploadable(wizard.pendingFiles[k].result)
  /\ wizard.filters = <<>>
  /\ commit([wizard EXCEPT !.filters = Append(@, wizard.pendingFiles)])

\* the Start button pressed again while an earlier handleStart is still
\* awaiting filterUploadableFiles: the button is rendered and enabled as
\* before
handleStartAgain ==
  /\ wizard.state.phase = "idle"
  /\ \E k \in 1..Len(wizard.pendingFiles) : isUploadable(wizard.pendingFiles[k].result)
  /\ wizard.filters # <<>>
  /\ Len(wizard.filters) < MaxFilters
  /\ commit([wizard EXCEPT !.filters = Append(@, wizard.pendingFiles)])

\* handleStart after await filterUploadableFiles(pendingFiles)
filterResolved ==
  \E k \in 1..Len(wizard.filters) :
    LET valid == filterUploadableFiles(wizard.filters[k])
        w == [wizard EXCEPT !.filters =
                SubSeq(@, 1, k - 1) \o SubSeq(@, k + 1, Len(@))]
    IN IF Len(valid) = 0
         THEN commit(w)
         ELSE commit(hookStart([w EXCEPT !.validFilesRef = valid,
                                         !.pendingFiles = <<>>,
                                         !.uploadingIndex = 0],
                               valid[1]))

\* onClick={cancel}: the Cancel button, rendered when uploading
cancelPressed ==
  /\ wizard.state.phase = "uploading"
  /\ commit(hookCancel(wizard))

\* onClick={() => start(validFilesRef.current[uploadingIndex])}: the Retry
\* button, rendered in Error when retryable
retryPressed ==
  /\ wizard.state.phase = "error"
  /\ wizard.state.retryable
  /\ Len(wizard.validFilesRef) > 0
  /\ wizard.uploadingIndex >= 0
  /\ wizard.uploadingIndex < Len(wizard.validFilesRef)
  /\ commit(hookStart(wizard, wizard.validFilesRef[wizard.uploadingIndex + 1]))

\* const handleReset = () => ...: the Start over button, rendered in Error
handleReset ==
  /\ wizard.state.phase = "error"
  /\ commit([hookReset(wizard) EXCEPT !.pendingFiles = <<>>,
                                      !.completedUploads = <<>>,
                                      !.uploadingIndex = -1,
                                      !.validFilesRef = <<>>])

\* orchestrator o returns after emitting Cancel
orchAborted(w, o) ==
  [orchEmit(w, o, Cancel) EXCEPT !.orchs[o].pc = "returned"]

\* await init(...) of orchestrator o resolves
orchInitResolved(o) ==
  /\ wizard.orchs[o].pc = "awaitInit"
  /\ IF wizard.orchs[o].aborted
       THEN commit(orchAborted(wizard, o))
       ELSE commit([orchEmit(wizard, o,
                      [type |-> "VALIDATION_PASSED",
                       sessionId |-> SessionOf(o), chunksTotal |-> 1])
                    EXCEPT !.orchs[o].pc = "awaitSend",
                           !.orchs[o].sessionId = SessionOf(o)])

\* await init(...) of orchestrator o rejects
orchInitRejected(o) ==
  /\ wizard.orchs[o].pc = "awaitInit"
  /\ IF wizard.orchs[o].aborted
       THEN commit(orchAborted(wizard, o))
       ELSE commit([orchEmit(orchEmit(wizard, o,
                      [type |-> "VALIDATION_PASSED", sessionId |-> "",
                       chunksTotal |-> 1]), o,
                      [type |-> "CHUNK_FAILED", chunkIndex |-> 0,
                       message |->
                         "Could not start upload. Check your connection."])
                    EXCEPT !.orchs[o].pc = "returned"])

\* await sendChunk(...) of orchestrator o resolves
orchSendResolved(o) ==
  /\ wizard.orchs[o].pc = "awaitSend"
  /\ IF wizard.orchs[o].aborted
       THEN commit(orchAborted(wizard, o))
       ELSE commit([orchEmit(wizard, o,
                      [type |-> "CHUNK_SENT", chunkIndex |-> 0,
                       bytesSent |-> wizard.orchs[o].file.size])
                    EXCEPT !.orchs[o].pc = "awaitFinalize"])

\* await sendChunk(...) of orchestrator o rejects, for the last time
orchSendRejected(o) ==
  /\ wizard.orchs[o].pc = "awaitSend"
  /\ IF wizard.orchs[o].aborted
       THEN commit(orchAborted(wizard, o))
       ELSE commit([orchEmit(wizard, o,
                      [type |-> "CHUNK_FAILED", chunkIndex |-> 0,
                       message |-> "boom"])
                    EXCEPT !.orchs[o].pc = "returned"])

\* await finalize(...) of orchestrator o resolves
orchFinalizeResolved(o) ==
  /\ wizard.orchs[o].pc = "awaitFinalize"
  /\ IF wizard.orchs[o].aborted
       THEN commit(orchAborted(wizard, o))
       ELSE commit([orchEmit(wizard, o, [type |-> "FINALIZE_SUCCESS"])
                    EXCEPT !.orchs[o].pc = "returned"])

\* await finalize(...) of orchestrator o rejects
orchFinalizeRejected(o) ==
  /\ wizard.orchs[o].pc = "awaitFinalize"
  /\ IF wizard.orchs[o].aborted
       THEN commit(orchAborted(wizard, o))
       ELSE commit([orchEmit(wizard, o,
                      [type |-> "FINALIZE_FAILED", message |-> "boom"])
                    EXCEPT !.orchs[o].pc = "returned"])

NextWizard ==
  \/ handleFilesSelected
  \/ handleRemoveFile
  \/ handleStart
  \/ filterResolved
  \/ cancelPressed
  \/ retryPressed
  \/ handleReset
  \/ \E o \in 1..Len(wizard.orchs) : orchInitResolved(o)
  \/ \E o \in 1..Len(wizard.orchs) : orchInitRejected(o)
  \/ \E o \in 1..Len(wizard.orchs) : orchSendResolved(o)
  \/ \E o \in 1..Len(wizard.orchs) : orchSendRejected(o)
  \/ \E o \in 1..Len(wizard.orchs) : orchFinalizeResolved(o)
  \/ \E o \in 1..Len(wizard.orchs) : orchFinalizeRejected(o)

\* one file of one chunk per orchestrator, one send per chunk
WizardInit ==
  /\ smPrev = initialState
  /\ smState = initialState
  /\ smEvent = NoEvent
  /\ chunkSize = 1
  /\ maxRetries = 1
  /\ retryDelayMs = 0
  /\ OrchInit
  /\ wizard = Mounted
  /\ smRun = NoRun
  /\ preview = NoPreview
  /\ filterRun = NoFilterRun
  /\ validation = NoValidation
  /\ analysis = NoAnalysis

SpecWizard == WizardInit /\ [][NextWizard]_vars

\* the sequencer with Start pressed repeatedly, the user pressing no other
\* button once the upload runs
NextStartAgain ==
  \/ handleFilesSelected
  \/ handleRemoveFile
  \/ handleStart
  \/ handleStartAgain
  \/ filterResolved
  \/ \E o \in 1..Len(wizard.orchs) : orchInitResolved(o)
  \/ \E o \in 1..Len(wizard.orchs) : orchInitRejected(o)
  \/ \E o \in 1..Len(wizard.orchs) : orchSendResolved(o)
  \/ \E o \in 1..Len(wizard.orchs) : orchSendRejected(o)
  \/ \E o \in 1..Len(wizard.orchs) : orchFinalizeResolved(o)
  \/ \E o \in 1..Len(wizard.orchs) : orchFinalizeRejected(o)

SpecStartAgain == WizardInit /\ [][NextStartAgain]_vars

\* ------------------------------------------------------------------------
\* filterUploadableFiles: the validations run concurrently
\* ------------------------------------------------------------------------
\* the files given to filterUploadableFiles: a name and what validateCsvFile
\* resolves with for the file
FilterFiles ==
  [name : {<<"a", ".", "c", "s", "v">>, <<"b", ".", "c", "s", "v">>},
   size : {1}, type : {"text/csv"}, result : CsvValidationResult]

Batches == UNION {[1..n -> FilterFiles] : n \in 0..MaxBatch}

\* filterUploadableFiles(files) is called: files.map(...) starts one
\* validateCsvFile per file
FilterInit ==
  /\ smPrev = initialState
  /\ smState = initialState
  /\ smEvent = NoEvent
  /\ chunkSize = 1
  /\ maxRetries = 1
  /\ retryDelayMs = 0
  /\ OrchInit
  /\ wizard = Mounted
  /\ smRun = NoRun
  /\ preview = NoPreview
  /\ validation = NoValidation
  /\ analysis = NoAnalysis
  /\ \E files \in Batches :
       filterRun = [files |-> files,
                    results |-> [i \in 1..Len(files) |-> [pending |-> TRUE]],
                    order |-> <<>>,
                    out |-> [pending |-> TRUE]]

\* validateCsvFile(f).then((r) => ({ file: f, result: r })) settles for the
\* file at index i
validateCsvFileResolved ==
  \E i \in 1..Len(filterRun.files) :
    /\ filterRun.results[i].pending
    /\ filterRun' = [filterRun EXCEPT
         !.results[i] = [pending |-> FALSE, file |-> filterRun.files[i],
                         result |-> filterRun.files[i].result],
         !.order = Append(@, i)]
    /\ UNCHANGED <<smVars, configVars, orchVars, wizard, validation, analysis, preview,
                 smRun>>

\* filterUploadableFiles taking the results in the order they arrived
filterInArrivalOrder ==
  /\ filterRun.out.pending
  /\ \A i \in 1..Len(filterRun.files) : ~filterRun.results[i].pending
  /\ LET results == [k \in 1..Len(filterRun.order) |->
                       filterRun.results[filterRun.order[k]]]
         kept == SelectSeq(results, LAMBDA r : isUploadable(r.result))
     IN filterRun' = [filterRun EXCEPT !.out =
          [pending |-> FALSE,
           verdicts |-> [k \in 1..Len(results) |->
                           isUploadable(results[k].result)],
           files |-> [k \in 1..Len(kept) |-> kept[k].file]]]
  /\ UNCHANGED <<smVars, configVars, orchVars, wizard, validation, analysis, preview,
                 smRun>>

\* const results = await Promise.all(...) resolves, once every validation
\* has, with the results in the order of files; then
\* results.filter((r) => isUploadable(r.result)).map((r) => r.file)
filterReturns ==
  /\ filterRun.out.pending
  /\ \A i \in 1..Len(filterRun.files) : ~filterRun.results[i].pending
  /\ LET results == filterRun.results
         kept == SelectSeq(results, LAMBDA r : isUploadable(r.result))
     IN filterRun' = [filterRun EXCEPT !.out =
          [pending |-> FALSE,
           verdicts |-> [k \in 1..Len(results) |->
                           isUploadable(results[k].result)],
           files |-> [k \in 1..Len(kept) |-> kept[k].file]]]
  /\ UNCHANGED <<smVars, configVars, orchVars, wizard, validation, analysis, preview,
                 smRun>>

NextFilter ==
  \/ validateCsvFileResolved
  \/ filterReturns

SpecFilter == FilterInit /\ [][NextFilter]_vars

\* ------------------------------------------------------------------------
\* validateCsvContent
\* ------------------------------------------------------------------------
\* The content of a CSV file is a sequence of lines of comma-separated
\* cells, the first line being read as the header, with or without an
\* unterminated quote somewhere in it. The cells are taken from a few
\* texts that the tests of validateCsvContent tell apart; none of them is
\* the empty text, so no line is an empty line, and a content has at most
\* MaxRows data lines, below the preview of 10.
HeaderCells == {"1", "true", "id", "{"}
DataCells == {"1", "x", " "}

Contents ==
  {[lines |-> <<>>, brokenQuote |-> FALSE]}
    \cup UNION {UNION {
           {[lines |-> <<header>> \o rows, brokenQuote |-> q] :
              header \in [1..c -> HeaderCells],
              rows \in [1..n -> [1..c -> DataCells]],
              q \in BOOLEAN}
           : n \in 0..MaxRows} : c \in 1..MaxFields}

\* String.prototype.trim on the texts of the model
trim(v) ==
  CASE v = " " -> ""
    [] v = " 200 " -> "200"
    [] OTHER -> v

\* /^-?\d+(\.\d+)?$/.test(v) on the texts of the model
isNumeric(v) == v \in {"1", "100", "200", "-30.5", "00001999"}

\* /^(true|false)$/i.test(v) on the texts of the model
isBoolean(v) == v \in {"true", "TRUE"}

\* Papa.parse(content, { header: true, preview: 10, skipEmptyLines: true }):
\* the cells of the first line are the field names, a repeated name being
\* renamed with a suffix counting its earlier occurrences; every further
\* line is a row that maps each field name to the cell of its column. A
\* single-column content is reported as UndetectableDelimiter, an
\* unterminated quote as MissingQuotes.
PapaParse(content) ==
  LET header == content.lines[1]
      fields == [i \in 1..Len(header) |->
                  [text |-> header[i],
                   suffix |-> Cardinality({j \in 1..(i - 1) :
                                            header[j] = header[i]})]]
      data == [r \in 1..(Len(content.lines) - 1) |->
                [i \in 1..Len(header) |-> content.lines[r + 1][i]]]
  IN [errors |-> (IF Len(header) = 1 THEN <<"UndetectableDelimiter">> ELSE <<>>)
                   \o (IF content.brokenQuote THEN <<"MissingQuotes">> ELSE <<>>),
      meta |-> [fields |-> fields],
      data |-> data]

\* function inferType(value)
inferType(value) ==
  LET v == trim(value)
  IN IF v = "" THEN "empty"
     ELSE IF isNumeric(v) THEN "number"
     ELSE IF isBoolean(v) THEN "boolean"
     ELSE "string"

\* function hasMixedTypes(rows, fields)
hasMixedTypes(rows, fields) ==
  \E i \in 1..Len(fields) :
    Cardinality({inferType(rows[r][i]) : r \in 1..Len(rows)} \ {"empty"}) > 1

\* looksLikeDataRow asking every field name to look like data
looksLikeDataRowEvery(fields) ==
  \A i \in 1..Len(fields) :
    /\ fields[i].suffix = 0
    /\ isNumeric(trim(fields[i].text)) \/ isBoolean(trim(fields[i].text))

\* function looksLikeDataRow(fields): a renamed field name ends in _n and
\* matches neither pattern
looksLikeDataRow(fields) ==
  \E i \in 1..Len(fields) :
    /\ fields[i].suffix = 0
    /\ isNumeric(trim(fields[i].text)) \/ isBoolean(trim(fields[i].text))

\* the rows that are empty, compared without trimming
allEmptyNoTrim(rows) ==
  \A r \in 1..Len(rows) : \A i \in 1..Len(rows[r]) : rows[r][i] = ""

\* rows.every((row) => Object.values(row).every((v) => v.trim() === ""))
allEmpty(rows) ==
  \A r \in 1..Len(rows) : \A i \in 1..Len(rows[r]) : trim(rows[r][i]) = ""

NOT_VALID == "Not a valid CSV file"

\* export function validateCsvContent(content)
validateCsvContent(content) ==
  IF content.lines = <<>>
    THEN [valid |-> FALSE, error |-> NOT_VALID]
  ELSE
    LET result == PapaParse(content)
        realErrors == SelectSeq(result.errors,
                                LAMBDA e : e # "UndetectableDelimiter")
        fields == result.meta.fields
        rawHeaders == [i \in 1..Len(content.lines[1]) |->
                        trim(content.lines[1][i])]
        rows == result.data
        warnings ==
          (IF looksLikeDataRow(fields) THEN <<"no-header">> ELSE <<>>)
            \o (IF Cardinality({rawHeaders[i] : i \in 1..Len(rawHeaders)})
                     < Len(rawHeaders)
                  THEN <<"duplicate-columns">> ELSE <<>>)
            \o (IF Len(rows) = 0 \/ allEmpty(rows)
                  THEN <<"no-data">> ELSE <<>>)
            \o (IF Len(rows) >= 2 /\ hasMixedTypes(rows, fields)
                  THEN <<"mixed-types">> ELSE <<>>)
    IN IF Len(realErrors) > 0 THEN [valid |-> FALSE, error |-> NOT_VALID]
       ELSE IF Len(fields) = 0 THEN [valid |-> FALSE, error |-> NOT_VALID]
       ELSE IF Len(fields) < 2 /\ Len(result.data) = 0
         THEN [valid |-> FALSE, error |-> NOT_VALID]
       ELSE IF \E i \in 1..Len(fields) : fields[i].text = "{"
         THEN [valid |-> FALSE, error |-> NOT_VALID]
       ELSE IF Len(warnings) > 0 THEN [valid |-> TRUE, warnings |-> warnings]
       ELSE [valid |-> TRUE]

\* validateCsvContent is about to be called on some content
ValidatorInit ==
  /\ smPrev = initialState
  /\ smState = initialState
  /\ smEvent = NoEvent
  /\ chunkSize = 1
  /\ maxRetries = 1
  /\ retryDelayMs = 0
  /\ OrchInit
  /\ wizard = Mounted
  /\ smRun = NoRun
  /\ preview = NoPreview
  /\ filterRun = NoFilterRun
  /\ analysis = NoAnalysis
  /\ \E content \in Contents :
       validation = [content |-> content, result |-> [pending |-> TRUE]]

\* export async function validateCsvFile(file): validateCsvContent on the
\* text of the head of the file
validateCsvFile ==
  /\ "pending" \in DOMAIN validation.result
  /\ validation' = [validation EXCEPT
       !.result = validateCsvContent(validation.content)]
  /\ UNCHANGED <<smVars, configVars, orchVars, wizard, filterRun, analysis, preview,
                 smRun>>

NextValidator ==
  \/ validateCsvFile

SpecValidator == ValidatorInit /\ [][NextValidator]_vars

\* ------------------------------------------------------------------------
\* analyzeColumns
\* ------------------------------------------------------------------------
\* The values of a column: empty, whitespace, decimals (one of them padded,
\* one of eight digits), booleans in two cases, two dates in ISO format (one
\* of them before 1900), a short text and a long one.
ColumnValues ==
  {"", " ", "100", " 200 ", "-30.5", "00001999", "true", "TRUE",
   "2024-01-15", "1850-06-01", "hello", "hello world"}

\* the one column analysed
Column == "c"

\* a row has a value for the column or lacks the column
Rows == [c : ColumnValues] \cup {[other |-> "x"]}

\* v.length < 8 is false
AtLeast8(v) == v \in {"00001999", "2024-01-15", "1850-06-01", "hello world"}

\* the texts of at least 8 characters that are not in the date-time string
\* format: what Date.parse makes of them is left to the implementation
NonIso == {"00001999", "hello world"}

NaN == [nan |-> TRUE]

\* not a date, a date in 1999, or a date in the year 3000
DateParses == [NonIso -> {NaN, [nan |-> FALSE, year |-> 1999],
                          [nan |-> FALSE, year |-> 3000]}]

\* new Date(Date.parse(v)).getFullYear(), for the texts of at least 8
\* characters
DateParse(v, dateParse) ==
  CASE v = "2024-01-15" -> [nan |-> FALSE, year |-> 2024]
    [] v = "1850-06-01" -> [nan |-> FALSE, year |-> 1850]
    [] v \in NonIso -> dateParse[v]
    [] OTHER -> NaN

\* function isPlausibleDate(v)
isPlausibleDate(v, dateParse) ==
  IF ~AtLeast8(v) THEN FALSE
  ELSE LET parsed == DateParse(v, dateParse)
       IN IF parsed.nan THEN FALSE
          ELSE parsed.year >= 1900 /\ parsed.year <= 2100

\* function inferColumnType(nonEmpty)
inferColumnType(nonEmpty, dateParse) ==
  IF Len(nonEmpty) = 0 THEN "unknown"
  ELSE LET trimmed == [k \in 1..Len(nonEmpty) |-> trim(nonEmpty[k])]
       IN IF \A k \in 1..Len(trimmed) : isNumeric(trimmed[k]) THEN "number"
          ELSE IF \A k \in 1..Len(trimmed) : isBoolean(trimmed[k])
            THEN "boolean"
          ELSE IF \A k \in 1..Len(trimmed) :
                    isPlausibleDate(trimmed[k], dateParse)
            THEN "date"
          ELSE "string"

\* parseFloat(v), in tenths
parseFloat(v) ==
  CASE v = "1" -> 10
    [] v = "100" -> 1000
    [] v = " 200 " -> 2000
    [] v = "-30.5" -> -305
    [] v = "00001999" -> 19990

\* [...new Set(nonEmpty)].slice(0, 5)
uniqueSamples(nonEmpty) ==
  LET first == SelectSeq([k \in 1..Len(nonEmpty) |-> k],
                         LAMBDA k : \A j \in 1..(k - 1) :
                                      nonEmpty[j] # nonEmpty[k])
  IN [k \in 1..(IF Len(first) < 5 THEN Len(first) ELSE 5) |->
        nonEmpty[first[k]]]

\* analyzeColumns warning from 20% of empty values on
analyzeColumnsFrom20(rows, dateParse) ==
  LET values == [k \in 1..Len(rows) |->
                  IF Column \in DOMAIN rows[k] THEN rows[k][Column] ELSE ""]
      nonEmpty == SelectSeq(values, LAMBDA v : trim(v) # "")
      emptyCount == Len(values) - Len(nonEmpty)
      totalCount == Len(values)
      inferredType == inferColumnType(nonEmpty, dateParse)
      nums == {parseFloat(nonEmpty[k]) : k \in 1..Len(nonEmpty)}
  IN [name |-> Column,
      inferredType |-> inferredType,
      emptyCount |-> emptyCount,
      totalCount |-> totalCount,
      sampleValues |-> uniqueSamples(nonEmpty),
      numericRange |->
        IF inferredType = "number" /\ Len(nonEmpty) > 0
          THEN <<[min |-> CHOOSE n \in nums : \A m \in nums : n <= m,
                  max |-> CHOOSE n \in nums : \A m \in nums : n >= m]>>
          ELSE <<>>,
      warnings |->
        IF totalCount > 0 /\ 5 * emptyCount >= totalCount
          THEN <<(200 * emptyCount + totalCount) \div (2 * totalCount)>>
          ELSE <<>>]

\* export function analyzeColumns(columns, rows), for the one column; the
\* warning is the percentage p of `p% of values are empty`
analyzeColumns(rows, dateParse) ==
  LET values == [k \in 1..Len(rows) |->
                  IF Column \in DOMAIN rows[k] THEN rows[k][Column] ELSE ""]
      nonEmpty == SelectSeq(values, LAMBDA v : trim(v) # "")
      emptyCount == Len(values) - Len(nonEmpty)
      totalCount == Len(values)
      inferredType == inferColumnType(nonEmpty, dateParse)
      nums == {parseFloat(nonEmpty[k]) : k \in 1..Len(nonEmpty)}
  IN [name |-> Column,
      inferredType |-> inferredType,
      emptyCount |-> emptyCount,
      totalCount |-> totalCount,
      sampleValues |-> uniqueSamples(nonEmpty),
      numericRange |->
        IF inferredType = "number" /\ Len(nonEmpty) > 0
          THEN <<[min |-> CHOOSE n \in nums : \A m \in nums : n <= m,
                  max |-> CHOOSE n \in nums : \A m \in nums : n >= m]>>
          ELSE <<>>,
      warnings |->
        IF totalCount > 0 /\ 5 * emptyCount > totalCount
          THEN <<(200 * emptyCount + totalCount) \div (2 * totalCount)>>
          ELSE <<>>]

\* analyzeColumns is about to be called on the rows of a file, in an
\* implementation of Date.parse
AnalyzerInit ==
  /\ smPrev = initialState
  /\ smState = initialState
  /\ smEvent = NoEvent
  /\ chunkSize = 1
  /\ maxRetries = 1
  /\ retryDelayMs = 0
  /\ OrchInit
  /\ wizard = Mounted
  /\ smRun = NoRun
  /\ preview = NoPreview
  /\ filterRun = NoFilterRun
  /\ validation = NoValidation
  /\ \E n \in 0..MaxValues : \E rows \in [1..n -> Rows] :
     \E dateParse \in DateParses :
       analysis = [dateParse |-> dateParse, rows |-> rows,
                   stats |-> [pending |-> TRUE]]

\* analyzeColumns(columns, rows) returns the statistics of the column
analyze ==
  /\ "pending" \in DOMAIN analysis.stats
  /\ analysis' = [analysis EXCEPT
       !.stats = analyzeColumns(analysis.rows, analysis.dateParse)]
  /\ UNCHANGED <<smVars, configVars, orchVars, wizard, filterRun, validation, preview,
                 smRun>>

\* the rows of a longer file, of which only the emptiness of the values
\* matters: empty, whitespace, a text, or no such column
RatioRows == [c : {"", " ", "hello"}] \cup {[other |-> "x"]}

\* analyzeColumns is about to be called on up to MaxRowCount such rows
RatioInit ==
  /\ smPrev = initialState
  /\ smState = initialState
  /\ smEvent = NoEvent
  /\ chunkSize = 1
  /\ maxRetries = 1
  /\ retryDelayMs = 0
  /\ OrchInit
  /\ wizard = Mounted
  /\ smRun = NoRun
  /\ preview = NoPreview
  /\ filterRun = NoFilterRun
  /\ validation = NoValidation
  /\ \E n \in 0..MaxRowCount : \E rows \in [1..n -> RatioRows] :
       analysis = [dateParse |-> [v \in NonIso |-> NaN], rows |-> rows,
                   stats |-> [pending |-> TRUE]]

NextAnalyzer ==
  \/ analyze

SpecAnalyzer == AnalyzerInit /\ [][NextAnalyzer]_vars

SpecRatio == RatioInit /\ [][NextAnalyzer]_vars

\* ------------------------------------------------------------------------
\* parseCsvPreview
\* ------------------------------------------------------------------------
\* A cell is a text, written as its first part followed by the numbers of
\* its _n suffixes: <<"a", 2>> is the text a_2. The first line of a text is
\* made of names, one of which is a name with a suffix and one a number;
\* the further lines are made of values.
FirstCells == {<<"a">>, <<"a", 2>>, <<"b">>, <<"1">>}
ValueCells == {<<"1">>, <<"x">>, <<"">>}

CsvTexts ==
  UNION {UNION {
    {<<first>> \o rest : first \in [1..c -> FirstCells],
                          rest \in [1..n -> [1..c -> ValueCells]]}
    : n \in 0..MaxPreviewRows} : c \in 1..MaxColumns}

\* Papa.parse(csvText, { header: false, preview: maxRows + 1,
\* skipEmptyLines: true }).data: the lines that are not empty, as arrays of
\* cells, up to maxRows + 1 of them
PapaParseRaw(csvText, maxRows) ==
  LET lines == SelectSeq(csvText, LAMBDA line : line # <<<<"">>>>)
  IN [k \in 1..(IF Len(lines) < maxRows + 1 THEN Len(lines) ELSE maxRows + 1)
        |-> lines[k]]

\* function looksLikeDataRow(values) of csv.ts
csvLooksLikeDataRow(values) ==
  \E i \in 1..Len(values) : values[i] \in {<<"1">>, <<"true">>}

\* function deduplicateColumns(columns): the count of the earlier
\* occurrences of col is what seen holds when col is mapped
deduplicateColumns(columns) ==
  [i \in 1..Len(columns) |->
     LET count == Cardinality({j \in 1..(i - 1) : columns[j] = columns[i]})
     IN IF count = 0 THEN columns[i] ELSE Append(columns[i], count + 1)]

\* function inferType(sample) of csv.ts
csvInferType(sample) ==
  IF Len(sample) = 0 THEN "unknown"
  ELSE IF \A k \in 1..Len(sample) : sample[k] = <<"1">> THEN "number"
  ELSE IF \A k \in 1..Len(sample) : sample[k] = <<"true">> THEN "boolean"
  ELSE "string"

\* the record built by row[columns[c]] = vals[c] ?? "" for c = 0, 1, ...: a
\* later column of the same name overwrites an earlier one
rowRecord(columns, vals) ==
  [name \in {columns[c] : c \in 1..Len(columns)} |->
     LET last == CHOOSE c \in 1..Len(columns) :
                   /\ columns[c] = name
                   /\ \A d \in 1..Len(columns) : columns[d] = name => d <= c
     IN IF last <= Len(vals) THEN vals[last] ELSE <<"">>]

\* `Column ${i + 1}`
columnNumber(i) == <<"Column", i>>

\* export function parseCsvPreview(csvText, maxRows)
parseCsvPreview(csvText, maxRows) ==
  LET raw == PapaParseRaw(csvText, maxRows)
  IN IF Len(raw) = 0 \/ Len(raw[1]) = 0
       THEN [columns |-> <<>>, rows |-> <<>>, types |-> <<>>,
             hasHeader |-> FALSE]
     ELSE
       LET firstRow == raw[1]
           hasHeader == ~csvLooksLikeDataRow(firstRow)
           columns == IF hasHeader THEN deduplicateColumns(firstRow)
                      ELSE [i \in 1..Len(firstRow) |-> columnNumber(i)]
           dataRows == IF hasHeader THEN SubSeq(raw, 2, Len(raw)) ELSE raw
           rows == [r \in 1..Len(dataRows) |-> rowRecord(columns, dataRows[r])]
           types == [col \in {columns[c] : c \in 1..Len(columns)} |->
                       csvInferType(SelectSeq([r \in 1..Len(rows) |-> rows[r][col]],
                                              LAMBDA x : x # <<"">>))]
       IN [columns |-> columns, rows |-> rows, types |-> types,
           hasHeader |-> hasHeader]

\* parseCsvPreview is about to be called on some text
PreviewInit ==
  /\ smPrev = initialState
  /\ smState = initialState
  /\ smEvent = NoEvent
  /\ chunkSize = 1
  /\ maxRetries = 1
  /\ retryDelayMs = 0
  /\ OrchInit
  /\ wizard = Mounted
  /\ smRun = NoRun
  /\ filterRun = NoFilterRun
  /\ validation = NoValidation
  /\ analysis = NoAnalysis
  /\ \E csvText \in CsvTexts :
       preview = [csvText |-> csvText, out |-> [pending |-> TRUE]]

\* parseCsvPreview(csvText, 100) returns
parsePreview ==
  /\ "pending" \in DOMAIN preview.out
  /\ preview' = [preview EXCEPT !.out = parseCsvPreview(preview.csvText, 100)]
  /\ UNCHANGED <<smVars, configVars, orchVars, wizard, filterRun, validation,
                 analysis, smRun>>

NextPreview ==
  \/ parsePreview

SpecPreview == PreviewInit /\ [][NextPreview]_vars

\* ------------------------------------------------------------------------
\* The state machine on its own: any state, any event
\* ------------------------------------------------------------------------
SMInit ==
  /\ smPrev \in UploadState
  /\ smState = smPrev
  /\ smEvent = NoEvent
  /\ chunkSize = 1
  /\ maxRetries = 1
  /\ retryDelayMs = 0
  /\ OrchInit
  /\ wizard = Mounted
  /\ smRun = NoRun
  /\ preview = NoPreview
  /\ filterRun = NoFilterRun
  /\ validation = NoValidation
  /\ analysis = NoAnalysis

ApplyEvent ==
  \E event \in UploadEvent :
    /\ smPrev' = smState
    /\ smEvent' = event
    /\ smState' = transition(smState, event)
    /\ UNCHANGED <<configVars, orchVars, wizVars>>

SMNext == ApplyEvent

SpecSM == SMInit /\ [][SMNext]_vars

\* ------------------------------------------------------------------------
\* The state machine run from Idle
\* ------------------------------------------------------------------------
\* the events of a run: one of each type, and two VALIDATION_PASSED with
\* different session ids and chunk counts
RunEvents ==
  {[type |-> "FILE_SELECTED",
    file |-> [name |-> CsvName, size |-> 1, type |-> "text/csv"]],
   [type |-> "VALIDATION_PASSED", sessionId |-> "s1", chunksTotal |-> 1],
   [type |-> "VALIDATION_PASSED", sessionId |-> "s2", chunksTotal |-> 2],
   [type |-> "VALIDATION_FAILED", message |-> "boom"],
   [type |-> "CHUNK_SENT", chunkIndex |-> 0, bytesSent |-> 1],
   [type |-> "CHUNK_FAILED", chunkIndex |-> 0, message |-> "boom"],
   [type |-> "FINALIZE_SUCCESS"],
   [type |-> "FINALIZE_FAILED", message |-> "boom"],
   [type |-> "CANCEL"],
   [type |-> "RESET"]}

\* the state machine in its initial state
RunInit ==
  /\ smPrev = initialState
  /\ smState = initialState
  /\ smEvent = NoEvent
  /\ chunkSize = 1
  /\ maxRetries = 1
  /\ retryDelayMs = 0
  /\ OrchInit
  /\ wizard = Mounted
  /\ smRun = NoRun
  /\ preview = NoPreview
  /\ filterRun = NoFilterRun
  /\ validation = NoValidation
  /\ analysis = NoAnalysis

\* state = transition(state, event), for the next event of the run; received
\* is every event since the most recent FILE_SELECTED or RESET, applied is
\* those that changed the state since the most recent FILE_SELECTED or RESET
\* that did
applyRunEvent ==
  \E event \in RunEvents :
    /\ smRun.n < MaxEvents
    /\ smPrev' = smState
    /\ smEvent' = event
    /\ smState' = transition(smState, event)
    /\ smRun' =
         [n |-> smRun.n + 1,
          received |-> IF event.type \in {"FILE_SELECTED", "RESET"}
                         THEN <<>> ELSE Append(smRun.received, event),
          applied |-> IF transition(smState, event) = smState
                        THEN smRun.applied
                      ELSE IF event.type \in {"FILE_SELECTED", "RESET"}
                        THEN <<>>
                      ELSE Append(smRun.applied, event)]
    /\ UNCHANGED <<configVars, orchVars, wizard, filterRun, validation,
                   analysis, preview>>

NextRun ==
  \/ applyRunEvent

SpecRun == RunInit /\ [][NextRun]_vars

\* ------------------------------------------------------------------------
\* Properties of transition (checked under SpecSM)
\* ------------------------------------------------------------------------
Applied == smEvent # NoEvent

\* the rows of the transition table
InTable(state, event) ==
  \/ event.type = "FILE_SELECTED" /\ state.phase \in {"idle", "done", "error"}
  \/ /\ event.type \in {"VALIDATION_PASSED", "VALIDATION_FAILED"}
     /\ state.phase = "validating"
  \/ /\ event.type \in {"CHUNK_SENT", "CHUNK_FAILED"}
     /\ state.phase = "uploading"
  \/ /\ event.type \in {"FINALIZE_SUCCESS", "FINALIZE_FAILED"}
     /\ state.phase = "finalizing"
  \/ /\ event.type = "CANCEL"
     /\ state.phase \in {"validating", "uploading", "finalizing"}
  \/ event.type = "RESET"

\* C1: for every state and every event whose (phase, event type) pair is not
\* a row of the transition table, transition returns the state unchanged.
C1_Totality ==
  (Applied /\ ~InTable(smPrev, smEvent)) => smState = smPrev

\* Cancel applied to a Done state with its session id left it as it was.
C1_Witness ==
  /\ smEvent.type = "CANCEL"
  /\ smPrev.phase = "done"
  /\ smState = smPrev

\* C2: Cancel yields Idle from Validating, Uploading and Finalizing whatever
\* the payload, and Reset yields Idle from every phase.
C2_UniversalEscape ==
  /\ (smEvent.type = "CANCEL"
        /\ smPrev.phase \in {"validating", "uploading", "finalizing"})
       => smState = [phase |-> "idle"]
  /\ smEvent.type = "RESET" => smState = [phase |-> "idle"]

\* Cancel was applied to a Finalizing state and gave Idle.
C2_Witness ==
  /\ smEvent.type = "CANCEL"
  /\ smPrev.phase = "finalizing"
  /\ smState = [phase |-> "idle"]

\* C3: in Uploading, ChunkSent yields Finalizing{file, sessionId} when
\* chunksCompleted + 1 >= chunksTotal, and otherwise the same Uploading state
\* with bytesSent set to the event's value and chunksCompleted one higher.
C3_ChunkSent ==
  (smEvent.type = "CHUNK_SENT" /\ smPrev.phase = "uploading") =>
    IF smPrev.chunksCompleted + 1 >= smPrev.chunksTotal
      THEN smState = [phase |-> "finalizing", file |-> smPrev.file,
                      sessionId |-> smPrev.sessionId]
      ELSE /\ smState.phase = "uploading"
           /\ smState.bytesSent = smEvent.bytesSent
           /\ smState.chunksCompleted = smPrev.chunksCompleted + 1
           /\ smState.file = smPrev.file
           /\ smState.sessionId = smPrev.sessionId
           /\ smState.bytesTotal = smPrev.bytesTotal
           /\ smState.chunksTotal = smPrev.chunksTotal
           /\ DOMAIN smState = DOMAIN smPrev

\* ChunkSent completed the last but one chunk and the machine went on
\* uploading with the new byte count.
C3_Witness ==
  /\ smEvent.type = "CHUNK_SENT"
  /\ smPrev.phase = "uploading"
  /\ smPrev.chunksCompleted + 2 = smPrev.chunksTotal
  /\ smState.phase = "uploading"
  /\ smState.bytesSent # smPrev.bytesSent

\* C4: in Validating{file}, ValidationPassed yields Uploading with that file,
\* the event's sessionId and chunksTotal, bytesSent = chunksCompleted = 0 and
\* bytesTotal = file.size; ValidationFailed yields Error{message, retryable =
\* false, file} with no sessionId.
C4_Validating ==
  /\ (smEvent.type = "VALIDATION_PASSED" /\ smPrev.phase = "validating") =>
       smState = [phase |-> "uploading", file |-> smPrev.file,
                  sessionId |-> smEvent.sessionId, bytesSent |-> 0,
                  bytesTotal |-> smPrev.file.size, chunksCompleted |-> 0,
                  chunksTotal |-> smEvent.chunksTotal]
  /\ (smEvent.type = "VALIDATION_FAILED" /\ smPrev.phase = "validating") =>
       /\ smState = [phase |-> "error", message |-> smEvent.message,
                     retryable |-> FALSE, file |-> smPrev.file]
       /\ "sessionId" \notin DOMAIN smState

\* ValidationFailed was applied to a Validating state.
C4_Witness ==
  /\ smEvent.type = "VALIDATION_FAILED"
  /\ smPrev.phase = "validating"
  /\ smPrev.file.size > 0
  /\ smState.phase = "error"

\* C5: ChunkFailed in Uploading and FinalizeFailed in Finalizing yield
\* Error{message, retryable = true} with the file and the sessionId of the
\* state they were applied to; an Error produced by a row of the table is not
\* retryable only when the row is ValidationFailed.
C5_RetryableErrors ==
  /\ (\/ smEvent.type = "CHUNK_FAILED" /\ smPrev.phase = "uploading"
      \/ smEvent.type = "FINALIZE_FAILED" /\ smPrev.phase = "finalizing") =>
       smState = [phase |-> "error", message |-> smEvent.message,
                  retryable |-> TRUE, file |-> smPrev.file,
                  sessionId |-> smPrev.sessionId]
  /\ (Applied /\ InTable(smPrev, smEvent) /\ smState.phase = "error"
        /\ ~smState.retryable) => smEvent.type = "VALIDATION_FAILED"

\* ChunkFailed was applied to an Uploading state.
C5_Witness ==
  /\ smEvent.type = "CHUNK_FAILED"
  /\ smPrev.phase = "uploading"
  /\ smState.phase = "error"
  /\ smState.retryable

\* C6: FileSelected yields Validating{file} from Idle, Done and Error, with no
\* sessionId or message left over, and is a no-op from Validating, Uploading
\* and Finalizing.
C6_FileSelected ==
  smEvent.type = "FILE_SELECTED" =>
    IF smPrev.phase \in {"idle", "done", "error"}
      THEN smState = [phase |-> "validating", file |-> smEvent.file]
      ELSE smState = smPrev

\* FileSelected with another file was applied to an Uploading state and
\* left it as it was.
C6_Witness ==
  /\ smEvent.type = "FILE_SELECTED"
  /\ smPrev.phase = "uploading"
  /\ smEvent.file # smPrev.file
  /\ smState = smPrev

\* ------------------------------------------------------------------------
\* Properties of the orchestrator (checked under Spec)
\* ------------------------------------------------------------------------
Injected == {"init", "sendChunk", "finalize"}

Returned == att[1].pc = "returned"

\* the file is accepted by the validation of start()
Accepted(f) ==
  (endsWith(f.name, CsvSuffix) \/ f.type = "text/csv") /\ f.size > 0

\* ceil(S / C), as the least n with n * C >= S
NumChunks(S, C) == CHOOSE n \in 0..S : n * C >= S /\ (n = 0 \/ (n - 1) * C < S)

phases == [k \in 1..Len(snapshots) |-> snapshots[k].phase]

CallsOf(ops) == {k \in 1..Len(calls) : calls[k].op \in ops}

SendsOf(i) ==
  {k \in CallsOf({"sendChunk"}) : calls[k].chunkIndex = i}

Failed(ks) == {k \in ks : calls[k].outcome = "fail"}

Succeeded(ks) == {k \in ks : calls[k].outcome = "ok"}

HappyPhases(n) ==
  <<"validating">> \o [k \in 1..n |-> "uploading"] \o <<"finalizing", "done">>

\* C7: for an accepted file of size S and chunk size C, when init, every
\* sendChunk and finalize succeed and cancel is never called, the observer
\* receives exactly the snapshots Validating, Uploading n times, Finalizing,
\* Done, with n = ceil(S / C).
C7_HappyPath ==
  (/\ Returned
   /\ nCancels = 0
   /\ Accepted(att[1].file)
   /\ \A k \in 1..Len(calls) : calls[k].outcome = "ok")
    => phases = HappyPhases(NumChunks(att[1].file.size, chunkSize))

\* C7 with at least one send allowed per chunk: the same, for maxRetries >= 1.
C7_HappyPathWhenSending ==
  (/\ Returned
   /\ nCancels = 0
   /\ maxRetries >= 1
   /\ Accepted(att[1].file)
   /\ \A k \in 1..Len(calls) : calls[k].outcome = "ok")
    => phases = HappyPhases(NumChunks(att[1].file.size, chunkSize))

\* A two-chunk upload ran to Done without a failure.
C7_Witness ==
  /\ Returned
  /\ nCancels = 0
  /\ \A k \in 1..Len(calls) : calls[k].outcome = "ok"
  /\ att[1].chunksTotal = 2
  /\ currentState.phase = "done"

InjectedCalls == SelectSeq(calls, LAMBDA c : c.op \in Injected)

\* C8: at most one injected operation is outstanding at any time, and the
\* operations are issued in the order init, then sendChunk with ascending
\* chunk indices (an index is sent again only after it failed, and the next
\* index only after it succeeded), then finalize.
C8_OneAtATimeInOrder ==
  LET ic == InjectedCalls IN
  /\ Cardinality({k \in 1..Len(ic) : ic[k].outcome = "pending"}) <= 1
  /\ \A k \in 1..Len(ic) :
       /\ (ic[k].op = "init") <=> (k = 1)
       /\ k > 1 => ic[k - 1].outcome # "pending"
       /\ ic[k].op = "sendChunk" =>
            /\ ic[k].chunkIndex \in 0..(att[1].chunksTotal - 1)
            /\ \/ /\ ic[k - 1].op = "init"
                  /\ ic[k - 1].outcome = "ok"
                  /\ ic[k].chunkIndex = 0
               \/ /\ ic[k - 1].op = "sendChunk"
                  /\ ic[k - 1].outcome = "fail"
                  /\ ic[k].chunkIndex = ic[k - 1].chunkIndex
               \/ /\ ic[k - 1].op = "sendChunk"
                  /\ ic[k - 1].outcome = "ok"
                  /\ ic[k].chunkIndex = ic[k - 1].chunkIndex + 1
       /\ ic[k].op = "finalize" =>
            /\ k = Len(ic)
            /\ ic[k - 1].outcome = "ok"

\* Chunk 0 failed once and was sent again, chunk 1 was sent after it, and
\* finalize is outstanding.
C8_Witness ==
  /\ Failed(SendsOf(0)) # {}
  /\ Succeeded(SendsOf(1)) # {}
  /\ att[1].pc = "awaitFinalize"

\* C9: when, for every chunk, sendChunk fails fewer than maxRetries times and
\* then succeeds (everything else succeeding, no cancel), the attempt ends in
\* Done, sendChunk was called exactly failures + 1 times for each chunk, and
\* no ChunkFailed event and no Error snapshot was emitted.
C9_RetryThenSucceed ==
  (/\ Returned
   /\ nCancels = 0
   /\ Accepted(att[1].file)
   /\ \A k \in CallsOf({"init", "finalize", "arrayBuffer", "setTimeout"}) :
        calls[k].outcome = "ok"
   /\ \A i \in 0..(att[1].chunksTotal - 1) :
        Cardinality(Failed(SendsOf(i))) < maxRetries)
    => /\ snapshots[Len(snapshots)].phase = "done"
       /\ \A i \in 0..(att[1].chunksTotal - 1) :
            /\ Cardinality(Succeeded(SendsOf(i))) = 1
            /\ Cardinality(SendsOf(i)) = Cardinality(Failed(SendsOf(i))) + 1
       /\ \A k \in 1..Len(events) : events[k].event.type # "CHUNK_FAILED"
       /\ \A k \in 1..Len(snapshots) : snapshots[k].phase # "error"

\* An upload ended in Done although a sendChunk call had failed
\* maxRetries - 1 times for one chunk.
C9_Witness ==
  /\ Returned
  /\ currentState.phase = "done"
  /\ maxRetries >= 2
  /\ \E i \in 0..(att[1].chunksTotal - 1) :
       Cardinality(Failed(SendsOf(i))) = maxRetries - 1

\* C10: when sendChunk always fails (init succeeding, no cancel), the attempt
\* ends in Error{retryable: true} after exactly maxRetries sendChunk calls,
\* all for chunk 0, and finalize is never called.
C10_AlwaysFails ==
  (/\ Returned
   /\ nCancels = 0
   /\ Accepted(att[1].file)
   /\ \A k \in CallsOf({"init", "arrayBuffer", "setTimeout"}) :
        calls[k].outcome = "ok"
   /\ Succeeded(CallsOf({"sendChunk"})) = {})
    => /\ snapshots[Len(snapshots)].phase = "error"
       /\ snapshots[Len(snapshots)].retryable
       /\ Cardinality(CallsOf({"sendChunk"})) = maxRetries
       /\ CallsOf({"sendChunk"}) = SendsOf(0)
       /\ CallsOf({"finalize"}) = {}

\* C10 with at least one send allowed per chunk: the same, for maxRetries >= 1.
C10_AlwaysFailsWhenSending ==
  (/\ Returned
   /\ nCancels = 0
   /\ maxRetries >= 1
   /\ Accepted(att[1].file)
   /\ \A k \in CallsOf({"init", "arrayBuffer", "setTimeout"}) :
        calls[k].outcome = "ok"
   /\ Succeeded(CallsOf({"sendChunk"})) = {})
    => /\ snapshots[Len(snapshots)].phase = "error"
       /\ snapshots[Len(snapshots)].retryable
       /\ Cardinality(CallsOf({"sendChunk"})) = maxRetries
       /\ CallsOf({"sendChunk"}) = SendsOf(0)
       /\ CallsOf({"finalize"}) = {}

\* the positions in the event log of the cancel() calls made while the state
\* machine was in Validating, Uploading or Finalizing
CancelsInFlight ==
  {k \in 2..Len(events) :
     /\ events[k].by = 0
     /\ snapshots[k - 1].phase \in {"validating", "uploading", "finalizing"}}

\* C11: once cancel() was called in Validating, Uploading or Finalizing (and
\* start() is not called again), every snapshot from then on is Idle and no
\* ChunkSent, ChunkFailed, FinalizeSuccess or FinalizeFailed (nor any other
\* event than Cancel) is applied, whenever and however the pending operation
\* settles.
C11_CancelWins ==
  \A k \in CancelsInFlight :
    \A j \in k..Len(events) :
      /\ snapshots[j] = [phase |-> "idle"]
      /\ events[j].event.type \notin
           {"CHUNK_SENT", "CHUNK_FAILED", "FINALIZE_SUCCESS",
            "FINALIZE_FAILED", "VALIDATION_PASSED", "VALIDATION_FAILED"}

\* cancel() was called while a sendChunk was pending, the call then resolved
\* and start() returned.
C11_Witness ==
  /\ CancelsInFlight # {}
  /\ Returned
  /\ \E k \in CallsOf({"sendChunk"}) :
       calls[k].outcome = "ok" /\ ~calls[k].signalAborted
  /\ \E k \in CancelsInFlight : snapshots[k - 1].phase = "uploading"
  /\ events[Len(events)].by = 1

\* C12 as claimed: after cancel() has emitted Cancel for an attempt in flight,
\* start() emits no further event and the observer gets no further snapshot
\* from it.
C12_NothingAfterCancel ==
  \A k \in CancelsInFlight :
    \A j \in (k + 1)..Len(events) : events[j].by = 0

\* C12 as amended: after cancel() has emitted Cancel for an attempt in flight,
\* every further event is Cancel and every further snapshot is Idle, and
\* start() emits at most one of them (when its pending operation settles).
C12_OnlyCancelAfterCancel ==
  \A k \in CancelsInFlight :
    /\ \A j \in (k + 1)..Len(events) :
         /\ events[j].event = [type |-> "CANCEL"]
         /\ snapshots[j] = [phase |-> "idle"]
    /\ Cardinality({j \in (k + 1)..Len(events) : events[j].by # 0}) <= 1

\* cancel() was called while finalize was pending; finalize then settled and
\* start() delivered one more Idle snapshot.
C12_Witness ==
  \E k \in CancelsInFlight :
    /\ snapshots[k - 1].phase = "finalizing"
    /\ k < Len(events)
    /\ events[Len(events)].by = 1
    /\ Returned

\* C13: once an attempt has been cancelled, no init, sendChunk or finalize
\* call is made for it: no injected operation is ever called with a signal
\* that is already aborted.
C13_NoCallAfterCancel ==
  \A k \in CallsOf({"init", "sendChunk", "finalize"}) :
    ~calls[k].signalAborted

\* the position in the event log of the FILE_SELECTED of the second start()
RestartAt == CHOOSE k \in 1..Len(events) : events[k].by = 2

\* C14: when start() is called again while an earlier, cancelled attempt has
\* an operation pending, the earlier attempt still sees itself as cancelled:
\* after the second start() it emits nothing but Cancel and issues no further
\* init, sendChunk or finalize call.
C14_OwnToken ==
  nStarts = 2 =>
    /\ \A j \in RestartAt..Len(events) :
         events[j].by = 1 => events[j].event = [type |-> "CANCEL"]
    /\ \A k \in CallsOf({"init", "sendChunk", "finalize"}) :
         calls[k].by = 1 => \A k2 \in 1..k : calls[k2].by = 1

\* C15: a file of zero bytes, or one whose name does not end in .csv and
\* whose type is not text/csv, is rejected: the snapshots are exactly
\* Validating{file}, Error{retryable: false, file}, start() has returned and
\* none of init, sendChunk and finalize (nor anything else) was called.
C15_Rejected ==
  (/\ nStarts = 1
   /\ nCancels = 0
   /\ \/ att[1].file.size = 0
      \/ /\ SubSeq(att[1].file.name, Len(att[1].file.name) - 3,
                   Len(att[1].file.name)) # <<".", "c", "s", "v">>
         /\ att[1].file.type # "text/csv")
    => /\ Returned
       /\ calls = <<>>
       /\ Len(snapshots) = 2
       /\ snapshots[1] = [phase |-> "validating", file |-> att[1].file]
       /\ snapshots[2].phase = "error"
       /\ snapshots[2].retryable = FALSE
       /\ snapshots[2].file = att[1].file
       /\ "sessionId" \notin DOMAIN snapshots[2]

\* start() was called with an empty CSV file.
C15_Witness ==
  /\ nStarts = 1
  /\ nCancels = 0
  /\ att[1].file.size = 0
  /\ att[1].file.type = "text/csv"
  /\ currentState.phase = "error"

\* C16: when init fails and cancel() was not called, the snapshots are
\* exactly Validating, Uploading (the shim, nothing sent), Error; the Error
\* is retryable, carries the file and the connectivity message; sendChunk
\* and finalize are never called.
C16_InitFails ==
  (/\ nCancels = 0
   /\ Failed(CallsOf({"init"})) # {})
    => /\ Returned
       /\ CallsOf({"sendChunk", "finalize"}) = {}
       /\ Len(snapshots) = 3
       /\ snapshots[1] = [phase |-> "validating", file |-> att[1].file]
       /\ snapshots[2].phase = "uploading"
       /\ snapshots[2].file = att[1].file
       /\ snapshots[2].chunksCompleted = 0
       /\ snapshots[2].bytesSent = 0
       /\ snapshots[3].phase = "error"
       /\ snapshots[3].retryable = TRUE
       /\ snapshots[3].file = att[1].file
       /\ snapshots[3].message
            = "Could not start upload. Check your connection."

\* init was called for a file of two chunks and rejected.
C16_Witness ==
  /\ nCancels = 0
  /\ Failed(CallsOf({"init"})) # {}
  /\ att[1].chunksTotal = 2
  /\ currentState.phase = "error"

\* C17: when every chunk was sent successfully, finalize failed and cancel()
\* was not called, the attempt ends in Error{retryable: true} carrying the
\* file, the session id init returned and the message of the finalize error
\* ('finalize failed' when what was thrown is not an Error); the Error is
\* reached from Finalizing by FinalizeFailed, and Done is never reached.
C17_FinalizeFails ==
  (/\ nCancels = 0
   /\ \A i \in 0..(att[1].chunksTotal - 1) : Succeeded(SendsOf(i)) # {}
   /\ Failed(CallsOf({"finalize"})) # {})
    => LET n == Len(snapshots)
           fin == CHOOSE k \in CallsOf({"finalize"}) : TRUE
       IN /\ Returned
          /\ n >= 2
          /\ snapshots[n] =
               [phase |-> "error",
                message |-> IF calls[fin].err.isError
                              THEN calls[fin].err.message
                              ELSE "finalize failed",
                retryable |-> TRUE,
                file |-> att[1].file,
                sessionId |-> att[1].sessionId]
          /\ snapshots[n - 1].phase = "finalizing"
          /\ events[n].event.type = "FINALIZE_FAILED"
          /\ \A k \in 1..n : snapshots[k].phase # "done"

\* Two chunks were sent and finalize rejected with an Error.
C17_Witness ==
  /\ nCancels = 0
  /\ att[1].chunksTotal = 2
  /\ \A i \in 0..1 : Succeeded(SendsOf(i)) # {}
  /\ \E k \in Failed(CallsOf({"finalize"})) : calls[k].err.isError
  /\ currentState.phase = "error"

\* the Error snapshot that reports the failed call c of an injected
\* operation: its message, and the phase it is reached from
ReportOf(c) ==
  IF c.op = "init"
    THEN [message |-> "Could not start upload. Check your connection.",
          from |-> "uploading"]
  ELSE IF c.op = "sendChunk"
    THEN [message |-> IF c.err.isError THEN c.err.message
                                       ELSE "Chunk upload failed",
          from |-> "uploading"]
    ELSE [message |-> IF c.err.isError THEN c.err.message
                                       ELSE "finalize failed",
          from |-> "finalizing"]

\* C18: when start() has returned after the failure of an injected operation
\* (the last call made is a failed init, sendChunk or finalize) and cancel()
\* was not called, the last snapshot is an Error with the message of that
\* failure, reached from the phase of the operation that failed.
C18_FailureReported ==
  (/\ Returned
   /\ nCancels = 0
   /\ calls # <<>>
   /\ calls[Len(calls)].op \in Injected
   /\ calls[Len(calls)].outcome = "fail")
    => LET n == Len(snapshots)
           report == ReportOf(calls[Len(calls)])
       IN /\ n >= 2
          /\ snapshots[n].phase = "error"
          /\ snapshots[n].message = report.message
          /\ snapshots[n - 1].phase = report.from

\* C18 with at least one send allowed per chunk: the same, for
\* maxRetries >= 1.
C18_FailureReportedWhenSending ==
  (/\ Returned
   /\ nCancels = 0
   /\ maxRetries >= 1
   /\ calls # <<>>
   /\ calls[Len(calls)].op \in Injected
   /\ calls[Len(calls)].outcome = "fail")
    => LET n == Len(snapshots)
           report == ReportOf(calls[Len(calls)])
       IN /\ n >= 2
          /\ snapshots[n].phase = "error"
          /\ snapshots[n].message = report.message
          /\ snapshots[n - 1].phase = report.from

\* the events emitted so far, in the order of emission
Emitted == [k \in 1..Len(events) |-> events[k].event]

\* C19: the observer receives one snapshot per emitted event, in the order
\* of emission: the k-th snapshot is the state obtained from Idle by applying
\* the first k emitted events with transition.
C19_SnapshotPerEvent ==
  /\ Len(snapshots) = Len(events)
  /\ \A k \in 1..Len(events) :
       snapshots[k] = emitState(initialState, SubSeq(Emitted, 1, k))

\* cancel() was called during the upload and start() emitted after it.
C19_Witness ==
  /\ Len(events) >= 4
  /\ events[Len(events)].by = 1
  /\ \E k \in 3..Len(events) : events[k].by = 0
  /\ Returned

\* C20: every Uploading snapshot the observer receives has
\* 0 <= bytesSent <= bytesTotal, 0 <= chunksCompleted <= chunksTotal and
\* bytesTotal = file.size.
C20_ProgressInBounds ==
  \A k \in 1..Len(snapshots) :
    snapshots[k].phase = "uploading" =>
      /\ 0 <= snapshots[k].bytesSent
      /\ snapshots[k].bytesSent <= snapshots[k].bytesTotal
      /\ 0 <= snapshots[k].chunksCompleted
      /\ snapshots[k].chunksCompleted <= snapshots[k].chunksTotal
      /\ snapshots[k].bytesTotal = snapshots[k].file.size
      /\ snapshots[k].file = att[1].file

\* A file of three bytes in chunks of two: the first chunk was sent and
\* reported in an Uploading snapshot.
C20_Witness ==
  /\ att[1].file.size = 3
  /\ chunkSize = 2
  /\ \E k \in 1..Len(snapshots) :
       /\ snapshots[k].phase = "uploading"
       /\ snapshots[k].chunksCompleted = 1
       /\ snapshots[k].bytesSent = 2

\* the snapshots at which the last chunk is counted: the state before is
\* Uploading with chunksCompleted + 1 = chunksTotal, the event is ChunkSent
\* and the state after is Finalizing
LastChunkCounted ==
  {k \in 2..Len(snapshots) :
     /\ snapshots[k - 1].phase = "uploading"
     /\ snapshots[k - 1].chunksCompleted + 1 = snapshots[k - 1].chunksTotal
     /\ events[k].event.type = "CHUNK_SENT"
     /\ snapshots[k].phase = "finalizing"}

\* successive Uploading snapshots never go back in bytesSent or
\* chunksCompleted, no Uploading snapshot has chunksCompleted = chunksTotal,
\* Finalizing is entered only by counting the last chunk, at most once, and
\* no Uploading snapshot follows it
ProgressMonotone ==
  /\ \A j, k \in 1..Len(snapshots) :
       (j < k /\ snapshots[j].phase = "uploading"
              /\ snapshots[k].phase = "uploading")
         => /\ snapshots[j].bytesSent <= snapshots[k].bytesSent
            /\ snapshots[j].chunksCompleted <= snapshots[k].chunksCompleted
  /\ \A k \in 1..Len(snapshots) :
       snapshots[k].phase = "uploading"
         => snapshots[k].chunksCompleted < snapshots[k].chunksTotal
  /\ Cardinality(LastChunkCounted) <= 1
  /\ \A k \in 2..Len(snapshots) :
       (snapshots[k].phase = "finalizing"
          /\ snapshots[k - 1].phase # "finalizing")
         => k \in LastChunkCounted
  /\ \A j \in LastChunkCounted : \A k \in j..Len(snapshots) :
       snapshots[k].phase # "uploading"

\* C21: within the attempt, successive Uploading snapshots have
\* non-decreasing bytesSent and chunksCompleted, and an attempt that gets
\* through its chunks (finalize is called) has counted chunksTotal chunks
\* exactly once, the count being followed at once by Finalizing.
C21_Monotone ==
  /\ ProgressMonotone
  /\ CallsOf({"finalize"}) # {} => Cardinality(LastChunkCounted) = 1

\* C21 with at least one send allowed per chunk: the same, for
\* maxRetries >= 1.
C21_MonotoneWhenSending ==
  maxRetries >= 1 =>
    /\ ProgressMonotone
    /\ CallsOf({"finalize"}) # {} => Cardinality(LastChunkCounted) = 1

\* the calls of sendChunk made by attempt a, in the order they were made
SendsBy(a) == SelectSeq(calls, LAMBDA c : c.op = "sendChunk" /\ c.by = a)

\* C22: a retry after a retryable Error runs the whole attempt again: init
\* is called again, before anything is sent, and the first sendChunk of the
\* retry is for chunk 0, whatever chunk failed; no attempt begins sending at
\* an index greater than 0.
C22_RetryFromStart ==
  /\ \A a \in Attempts :
       SendsBy(a) # <<>> => SendsBy(a)[1].chunkIndex = 0
  /\ nStarts = 2 =>
       /\ \E k \in CallsOf({"init"}) : calls[k].by = 2
       /\ \A k \in CallsOf({"sendChunk"}) :
            calls[k].by = 2 =>
              \E j \in 1..(k - 1) :
                /\ calls[j].op = "init"
                /\ calls[j].by = 2
                /\ calls[j].outcome = "ok"

\* Chunk 1 failed in the first attempt, and the retry has sent chunk 0.
C22_Witness ==
  /\ nStarts = 2
  /\ \E k \in 1..Len(events) :
       /\ events[k].by = 1
       /\ events[k].event.type = "CHUNK_FAILED"
       /\ events[k].event.chunkIndex = 1
  /\ \E k \in Succeeded(CallsOf({"sendChunk"})) :
       calls[k].by = 2 /\ calls[k].chunkIndex = 0

\* the calls of sendChunk for the chunk of call k, up to and after call k
SendsUpTo(k) == {j \in SendsOf(calls[k].chunkIndex) : j <= k}

SendsAfter(k) == {j \in SendsOf(calls[k].chunkIndex) : j > k}

\* a send that failed with a 5xx response or a network error is sent again
\* unless it was the third send of the chunk
C23_ServerErrorsRetried ==
  Returned =>
    \A k \in Failed(CallsOf({"sendChunk"})) :
      calls[k].err.cause \in {"5xx", "network"} =>
        /\ Cardinality(SendsUpTo(k)) <= 3
        /\ Cardinality(SendsUpTo(k)) < 3 => SendsAfter(k) # {}
        /\ Cardinality(SendsUpTo(k)) = 3 => SendsAfter(k) = {}

\* C23: a chunk send that fails with a 4xx response is not sent again, while
\* one that fails with a 5xx response or a network error is sent again, up
\* to 3 sends of the chunk in the default configuration.
C23_RetryByStatus ==
  /\ C23_ServerErrorsRetried
  /\ \A k \in Failed(CallsOf({"sendChunk"})) :
       calls[k].err.cause = "4xx" => SendsAfter(k) = {}

\* ------------------------------------------------------------------------
\* Properties of the sequencer (checked under SpecWizard)
\* ------------------------------------------------------------------------
\* the upload attempts in flight: the orchestrators whose start() has not
\* returned and that were not cancelled
InFlight ==
  {o \in 1..Len(wizard.orchs) :
     wizard.orchs[o].pc # "returned" /\ ~wizard.orchs[o].aborted}

\* C24: the sequencer uploads one file at a time: at most one attempt is in
\* flight, and while the file at index i of the batch is being uploaded the
\* i files before it have been recorded as completed.
C24_OneAtATime ==
  /\ Cardinality(InFlight) <= 1
  /\ InFlight # {} => Len(wizard.completedUploads) >= wizard.uploadingIndex

\* the batch has been driven to its end: the hook state is Done for the last
\* file of validFilesRef
BatchDone ==
  /\ wizard.state.phase = "done"
  /\ Len(wizard.validFilesRef) > 0
  /\ wizard.uploadingIndex = Len(wizard.validFilesRef) - 1

\* C25: when the last uploadable file of a batch is Done, completedUploads
\* has exactly one {name, sessionId} entry per uploadable file of the batch,
\* in batch order, each with the session id of an attempt for that file that
\* reached Done, and allDone holds.
C25_CompletedMatchesBatch ==
  BatchDone =>
    /\ allDone(wizard)
    /\ Len(wizard.completedUploads) = Len(wizard.validFilesRef)
    /\ \A k \in 1..Len(wizard.completedUploads) :
         /\ k <= Len(wizard.validFilesRef)
         /\ wizard.completedUploads[k].name = wizard.validFilesRef[k].name
         /\ \E o \in 1..Len(wizard.orchs) :
              /\ wizard.orchs[o].file.name = wizard.validFilesRef[k].name
              /\ wizard.orchs[o].cur.phase = "done"
              /\ wizard.orchs[o].cur.sessionId
                   = wizard.completedUploads[k].sessionId

\* ------------------------------------------------------------------------
\* Properties of filterUploadableFiles and isUploadable (checked under
\* SpecFilter)
\* ------------------------------------------------------------------------
\* C26: filterUploadableFiles(files) resolves with exactly the files whose
\* validation result is uploadable, in their order in files, whatever order
\* the validations settled in.
C26_FilterKeepsOrder ==
  ~filterRun.out.pending =>
    LET kept == {i \in 1..Len(filterRun.files) :
                   /\ filterRun.files[i].result.valid
                   /\ ~(/\ "warnings" \in DOMAIN filterRun.files[i].result
                        /\ \E k \in 1..Len(filterRun.files[i].result.warnings) :
                             filterRun.files[i].result.warnings[k] = "no-data")}
        out == filterRun.out.files
    IN /\ Len(out) = Cardinality(kept)
       /\ \A k \in 1..Len(out) :
            \E i \in kept :
              /\ out[k] = filterRun.files[i]
              /\ Cardinality({j \in kept : j < i}) = k - 1

\* Two different uploadable files, the validation of the second settling
\* first; the filter has resolved.
C26_Witness ==
  /\ ~filterRun.out.pending
  /\ filterRun.order = <<2, 1>>
  /\ filterRun.files[1] # filterRun.files[2]
  /\ Len(filterRun.out.files) = 2

\* C27: isUploadable(result) is true exactly when result is valid and its
\* warnings do not include no-data: duplicate-columns, no-header and
\* mixed-types never block a valid result, alone or combined, and an invalid
\* result is never uploadable.
C27_Uploadable ==
  ~filterRun.out.pending =>
    \A i \in 1..Len(filterRun.files) :
      LET result == filterRun.files[i].result
          warnings == IF "warnings" \in DOMAIN result
                        THEN {result.warnings[k] : k \in 1..Len(result.warnings)}
                        ELSE {}
      IN /\ filterRun.out.verdicts[i]
              <=> (result.valid /\ "no-data" \notin warnings)
         /\ (result.valid /\ warnings \subseteq
               {"duplicate-columns", "no-header", "mixed-types"})
              => filterRun.out.verdicts[i]
         /\ ~result.valid => ~filterRun.out.verdicts[i]

\* A valid result with the three other warnings was found uploadable, and an
\* invalid one was not.
C27_Witness ==
  /\ ~filterRun.out.pending
  /\ Len(filterRun.files) = 2
  /\ filterRun.files[1].result.valid
  /\ "warnings" \in DOMAIN filterRun.files[1].result
  /\ Len(filterRun.files[1].result.warnings) = 3
  /\ filterRun.out.verdicts[1]
  /\ ~filterRun.files[2].result.valid
  /\ ~filterRun.out.verdicts[2]

\* ------------------------------------------------------------------------
\* Properties of validateCsvContent (checked under SpecValidator)
\* ------------------------------------------------------------------------
\* the warnings of a validation result, none for a result without the field
WarningsOf(result) ==
  IF "warnings" \in DOMAIN result
    THEN {result.warnings[k] : k \in 1..Len(result.warnings)}
    ELSE {}

\* the validation has returned
Validated == "valid" \in DOMAIN validation.result

\* the cells of the header line that match the numeric or the boolean
\* pattern
DataLike ==
  {i \in 1..Len(validation.content.lines[1]) :
     validation.content.lines[1][i] \in {"1", "true"}}

\* C28, as the specification states it: for content that passes the
\* structural checks, the no-header warning is raised exactly when every
\* field name of the header row matches the numeric or the boolean pattern.
C28_NoHeaderWhenEvery ==
  (Validated /\ validation.result.valid) =>
    ("no-header" \in WarningsOf(validation.result)
       <=> DataLike = 1..Len(validation.content.lines[1]))

\* C28, amended: for content that passes the structural checks, the
\* no-header warning is raised exactly when at least one field name of the
\* header row matches the numeric or the boolean pattern.
C28_NoHeaderWhenSome ==
  (Validated /\ validation.result.valid) =>
    ("no-header" \in WarningsOf(validation.result) <=> DataLike # {})

\* A header of which one name looks like data and another does not was
\* given the warning.
C28_Witness ==
  /\ Validated
  /\ validation.result.valid
  /\ DataLike # {}
  /\ DataLike # 1..Len(validation.content.lines[1])
  /\ "no-header" \in WarningsOf(validation.result)

NonEmptyValues ==
  {trim(analysis.rows[k].c) :
     k \in {j \in 1..Len(analysis.rows) :
              /\ "c" \in DOMAIN analysis.rows[j]
              /\ analysis.rows[j].c \notin {"", " "}}}

Decimals == {"100", "200", "-30.5", "00001999"}
Booleans == {"true", "TRUE"}

\* the values that are at least 8 characters, parse as a date and have a
\* year in [1900, 2100]
PlausibleDates ==
  {"2024-01-15"}
    \cup {v \in NonIso : /\ ~analysis.dateParse[v].nan
                         /\ analysis.dateParse[v].year \in 1900..2100}

\* the kind of one value: the first of the checks it passes
KindOf(v) ==
  IF v \in Decimals THEN "number"
  ELSE IF v \in Booleans THEN "boolean"
  ELSE IF v \in PlausibleDates THEN "date"
  ELSE "string"

\* the type that the ordered checks give
OrderedType ==
  IF NonEmptyValues = {} THEN "unknown"
  ELSE IF NonEmptyValues \subseteq Decimals THEN "number"
  ELSE IF NonEmptyValues \subseteq Booleans THEN "boolean"
  ELSE IF NonEmptyValues \subseteq PlausibleDates THEN "date"
  ELSE "string"

\* The type of a column is the one the ordered checks give on its non-empty
\* values.
C30_OrderedChecks ==
  "inferredType" \in DOMAIN analysis.stats =>
    analysis.stats.inferredType = OrderedType

\* C30: analyzeColumns infers the type of a column from its non-empty values
\* only, by the checks in order (unknown, number, boolean, date, string), and
\* a column mixing two of these kinds is string.
C30_TypeInference ==
  "inferredType" \in DOMAIN analysis.stats =>
    /\ analysis.stats.inferredType = OrderedType
    /\ Cardinality({KindOf(v) : v \in NonEmptyValues}) >= 2 =>
         analysis.stats.inferredType = "string"

\* the rows whose value for the column is empty or whitespace, a row without
\* the column counting as empty
EmptyRows ==
  {k \in 1..Len(analysis.rows) :
     "c" \in DOMAIN analysis.rows[k] => analysis.rows[k].c \in {"", " "}}

\* C31: analyzeColumns reports emptyCount as the number of empty or
\* all-whitespace values and totalCount as the number of rows, and gives the
\* empty-ratio warning exactly when 5 * emptyCount > totalCount: a column
\* that is exactly 20% empty, or a column over no rows, gets no warning.
C31_EmptyRatio ==
  "emptyCount" \in DOMAIN analysis.stats =>
    /\ analysis.stats.emptyCount = Cardinality(EmptyRows)
    /\ analysis.stats.totalCount = Len(analysis.rows)
    /\ analysis.stats.warnings # <<>>
         <=> 5 * Cardinality(EmptyRows) > Len(analysis.rows)
    /\ Len(analysis.rows) = 0 => analysis.stats.warnings = <<>>
    /\ (Len(analysis.rows) > 0
          /\ 5 * Cardinality(EmptyRows) = Len(analysis.rows))
         => analysis.stats.warnings = <<>>

\* Five rows of which exactly one is empty: no warning.
C31_Witness ==
  /\ "emptyCount" \in DOMAIN analysis.stats
  /\ Len(analysis.rows) = 5
  /\ Cardinality(EmptyRows) = 1
  /\ analysis.stats.emptyCount = 1
  /\ analysis.stats.totalCount = 5
  /\ analysis.stats.warnings = <<>>

\* ------------------------------------------------------------------------
\* Properties of parseCsvPreview (checked under SpecPreview)
\* ------------------------------------------------------------------------
\* C32: for every header row, the column names that the de-duplication
\* produces are pairwise distinct, so that a row record has one key per
\* column and no cell value overwrites another.
C32_DistinctColumns ==
  ("hasHeader" \in DOMAIN preview.out /\ preview.out.hasHeader) =>
    /\ \A i, j \in 1..Len(preview.out.columns) :
         i # j => preview.out.columns[i] # preview.out.columns[j]
    /\ \A r \in 1..Len(preview.out.rows) :
         Cardinality(DOMAIN preview.out.rows[r]) = Len(preview.csvText[1])

\* ------------------------------------------------------------------------
\* Finalize, termination, byte ranges, progress, session ids
\* ------------------------------------------------------------------------
\* the calls of finalize
Finalizes == {k \in 1..Len(calls) : calls[k].op = "finalize"}

\* C33: for every configuration, maxRetries = 0 included, finalize is
\* invoked only after a sendChunk call has succeeded for every chunk index
\* 0..chunksTotal - 1, and, until cancel() is called, only while the state
\* machine is in Finalizing.
C33_FinalizeAfterAllChunks ==
  \A k \in Finalizes :
    /\ \A i \in 0..(att[calls[k].by].chunksTotal - 1) :
         \E j \in 1..(k - 1) :
           /\ calls[j].op = "sendChunk"
           /\ calls[j].by = calls[k].by
           /\ calls[j].chunkIndex = i
           /\ calls[j].outcome = "ok"
    /\ (calls[k].outcome = "pending" /\ nCancels = 0) =>
         currentState.phase = "finalizing"

\* C33 with at least one send allowed per chunk: the same, for
\* maxRetries >= 1.
C33_FinalizeAfterAllChunksWhenSending ==
  maxRetries >= 1 => C33_FinalizeAfterAllChunks

\* C34: with chunkSize >= 1 and maxRetries >= 1, when cancel is never
\* called and every injected operation and retry delay eventually settles,
\* start() eventually returns and the last snapshot delivered is Done or
\* Error.
C34_Terminates ==
  (nStarts = 1) ~>
    (/\ Returned
     /\ snapshots # <<>>
     /\ snapshots[Len(snapshots)].phase \in {"done", "error"})

\* start() returned in Done after a sendChunk call had failed and the retry
\* delay had passed.
C34_Witness ==
  /\ Returned
  /\ nCancels = 0
  /\ maxRetries >= 2
  /\ snapshots[Len(snapshots)].phase = "done"
  /\ \E k \in 1..Len(calls) : calls[k].op = "sendChunk" /\ calls[k].outcome = "fail"

\* the calls of sendChunk
Sends == {k \in 1..Len(calls) : calls[k].op = "sendChunk"}

\* C35: for a file of size S > 0 and chunk size C >= 1, the byte range
\* passed to sendChunk for chunk i is [i * C, min((i + 1) * C, S)), with i in
\* 0..ceil(S / C) - 1: the ranges are non-empty, each starts where the
\* previous one ends, the first starts at 0 and the last ends at S, and
\* every chunk but the last has exactly C bytes.
C35_ByteRanges ==
  \A k \in Sends :
    LET S == att[calls[k].by].file.size
        i == calls[k].chunkIndex
        n == NumChunks(S, chunkSize)
    IN /\ S > 0
       /\ i \in 0..(n - 1)
       /\ calls[k].startByte = i * chunkSize
       /\ calls[k].endByte = (IF (i + 1) * chunkSize < S
                                THEN (i + 1) * chunkSize ELSE S)
       /\ calls[k].startByte < calls[k].endByte
       /\ i = 0 => calls[k].startByte = 0
       /\ i = n - 1 => calls[k].endByte = S
       /\ i < n - 1 => calls[k].endByte - calls[k].startByte = chunkSize
       /\ \A j \in Sends :
            (calls[j].by = calls[k].by /\ calls[j].chunkIndex = i + 1)
              => calls[j].startByte = calls[k].endByte

\* A file of 3 bytes in chunks of 2: the second chunk was sent as [2, 3).
C35_Witness ==
  /\ chunkSize = 2
  /\ att[1].file.size = 3
  /\ \E k \in Sends : /\ calls[k].chunkIndex = 1
                      /\ calls[k].startByte = 2
                      /\ calls[k].endByte = 3

\* C36: in every Uploading snapshot emitted after a successful initialize,
\* bytesSent is the number of bytes of the chunks acknowledged so far:
\* bytesSent = min(chunksCompleted * chunkSize, file.size).
C36_ByteAccurate ==
  (calls # <<>> /\ calls[1].op = "init" /\ calls[1].outcome = "ok") =>
    \A k \in 1..Len(snapshots) :
      snapshots[k].phase = "uploading" =>
        snapshots[k].bytesSent =
          (IF snapshots[k].chunksCompleted * chunkSize < snapshots[k].file.size
             THEN snapshots[k].chunksCompleted * chunkSize
             ELSE snapshots[k].file.size)

\* Two chunks of one byte of a file of three were acknowledged: the
\* snapshot says 2 bytes.
C36_Witness ==
  /\ chunkSize = 1
  /\ snapshots # <<>>
  /\ snapshots[Len(snapshots)].phase = "uploading"
  /\ snapshots[Len(snapshots)].file.size = 3
  /\ snapshots[Len(snapshots)].chunksCompleted = 2
  /\ snapshots[Len(snapshots)].bytesSent = 2

\* the attempt that was the latest one started when the k-th event was
\* applied: each start() begins by emitting FILE_SELECTED
AttemptAt(k) ==
  Cardinality({j \in 1..k : events[j].event.type = "FILE_SELECTED"})

\* C37: every sendChunk call and the finalize call of an attempt receive the
\* session id returned by that attempt's initialize call, and a Done
\* snapshot carries the session id of the attempt it belongs to, the latest
\* one started, never the session id of an earlier attempt.
C37_OwnSession ==
  /\ \A k \in CallsOf({"sendChunk", "finalize"}) :
       calls[k].sessionId = att[calls[k].by].sessionId
  /\ \A k \in 1..Len(snapshots) :
       snapshots[k].phase = "done" =>
         snapshots[k].sessionId = att[AttemptAt(k)].sessionId

\* ------------------------------------------------------------------------
\* The state exposed by useChunkedUpload (checked under SpecWizard)
\* ------------------------------------------------------------------------
\* C38: the state exposed by useChunkedUpload reflects the most recently
\* started attempt: once start() was called again, the state is the one of
\* the orchestrator that start() made last, whatever an earlier orchestrator
\* emits when its pending operation settles.
C38_LatestAttempt ==
  wizard.orchestratorRef # 0 =>
    wizard.state = wizard.orchs[wizard.orchestratorRef].cur

\* ------------------------------------------------------------------------
\* How Done is reached (checked under SpecRun)
\* ------------------------------------------------------------------------
Failures == {"VALIDATION_FAILED", "CHUNK_FAILED", "FINALIZE_FAILED"}

\* Done is entered from Finalizing, by FINALIZE_SUCCESS, and from nowhere
\* else
DoneFromFinalizing ==
  (smState.phase = "done" /\ smPrev.phase # "done") =>
    (smPrev.phase = "finalizing" /\ smEvent.type = "FINALIZE_SUCCESS")

\* C39, as the specification states it: the state is Done only if, since the
\* most recent FileSelected or Reset, the machine received ValidationPassed,
\* then at least one ChunkSent, then FinalizeSuccess, with no Cancel or
\* failure event in between; Done is not reached directly from another phase
\* than Finalizing, and its session id is the one of that ValidationPassed.
C39_DoneOnlyAfterRun ==
  /\ DoneFromFinalizing
  /\ smState.phase = "done" =>
       \E i, j, k \in 1..Len(smRun.received) :
         /\ i < j /\ j < k
         /\ smRun.received[i].type = "VALIDATION_PASSED"
         /\ smRun.received[j].type = "CHUNK_SENT"
         /\ smRun.received[k].type = "FINALIZE_SUCCESS"
         /\ \A m \in i..k :
              smRun.received[m].type \notin Failures \cup {"CANCEL"}
         /\ smState.sessionId = smRun.received[i].sessionId

\* C39, amended: the state is Done only if the events that changed the state
\* since the most recent FileSelected or Reset that changed it are exactly
\* ValidationPassed, then one or more ChunkSent, then FinalizeSuccess; Done
\* is not reached directly from another phase than Finalizing, and its
\* session id is the one of that ValidationPassed.
C39_DoneOnlyAfterAppliedRun ==
  /\ DoneFromFinalizing
  /\ smState.phase = "done" =>
       LET a == smRun.applied
       IN /\ Len(a) >= 3
          /\ a[1].type = "VALIDATION_PASSED"
          /\ \A m \in 2..(Len(a) - 1) : a[m].type = "CHUNK_SENT"
          /\ a[Len(a)].type = "FINALIZE_SUCCESS"
          /\ smState.sessionId = a[1].sessionId

\* Done was reached although a failure event was received, and ignored,
\* between ValidationPassed and FinalizeSuccess.
C39_Witness ==
  /\ smState.phase = "done"
  /\ smPrev.phase = "finalizing"
  /\ smEvent.type = "FINALIZE_SUCCESS"
  /\ Len(smRun.received) > Len(smRun.applied)
  /\ \E m \in 1..Len(smRun.received) : smRun.received[m].type \in Failures

====
